---- MODULE Spec2Model ----
(***************************************************************************)
(* A model of the Sokoban solving engine of src/solver.py: the board, the  *)
(* dead-space precomputation, the per-goal distance tables and the A*      *)
(* search of SokobanSolver, together with the replay loop of               *)
(* SokobanGame.visualize_solution (src/sokoban.py) that consumes the       *)
(* returned move string and the event loop of SokobanGame.play_manual      *)
(* that moves the player and the boxes before the solver is asked.         *)
(*                                                                         *)
(* Positions are pairs <<row, col>> counted from 0 as in the source; a     *)
(* board is a sequence of rows, each a sequence of one-character cells, so *)
(* the source's board[r][c] is board[r + 1][c + 1] here.                   *)
(***************************************************************************)
EXTENDS Integers, Sequences, FiniteSets, TLC

VARIABLES
    board,                 \* self.board
    init_player_pos,       \* self.init_player_pos
    init_boxes_pos,        \* self.init_boxes_pos (a list, in the caller's order)
    goals_pos,             \* self.goals_pos (row-major scan order)
    width,                 \* self.width
    height,                \* self.height
    dead_space,            \* self.dead_space
    minimum_distance_map,  \* self.minimum_distance_map
    visited_states,        \* self.visited_states (the closed set)
    fringe,                \* self.fringe (the frontier, a sorted list)
    solution,              \* self.solution
    expanded_nodes_count,  \* self.expanded_nodes_count
    visited_nodes_count,   \* self.visited_nodes_count
    pc,                    \* where the caller of the solver stands
    oob_read,              \* some board/dead_space read used an out-of-range coordinate
    viz_pos,               \* visualize_solution and play_manual: current_pos
    viz_boxes,             \* visualize_solution and play_manual: current_boxes
    step_index,            \* visualize_solution: step_index; play_manual: moves_count
    explored,              \* history: the states _explore_moves was called on, in order
    popped,                \* history: the nodes popped from the fringe, in order
    twin                   \* a second SokobanSolver instance built from the same arguments

vars == <<board, init_player_pos, init_boxes_pos, goals_pos, width, height,
          dead_space, minimum_distance_map, visited_states, fringe, solution,
          expanded_nodes_count, visited_nodes_count, pc, oob_read,
          viz_pos, viz_boxes, step_index, explored, popped, twin>>

(***************************************************************************)
(* Program constants.                                                      *)
(***************************************************************************)
INFINITY == 999999

WALL == "1"

GOAL == "2"

EMPTY == "0"

\* What a Python subscript yields when it raises IndexError.
ERR == "IndexError"

\* The directions in another order
DirNamesUpFirst == <<"U", "D", "L", "R">>

\* DIRECTIONS, in the dictionary's insertion order.
DirNames == <<"R", "L", "D", "U">>

DIRECTIONS(d) ==
    CASE d = "R" -> <<0, 1>>
      [] d = "L" -> <<0, -1>>
      [] d = "D" -> <<1, 0>>
      [] d = "U" -> <<-1, 0>>

\* DIRECTIONS.get(move, (0, 0))
DirectionsGet(d) == IF d \in {"R", "L", "D", "U"} THEN DIRECTIONS(d) ELSE <<0, 0>>

(***************************************************************************)
(* Python list and string subscripting.                                    *)
(***************************************************************************)
\* A subscript i of a sequence of length n is accepted for -n <= i < n.
PyValid(i, n) == i >= -n /\ i < n

\* A negative subscript counts from the end.
PyIndex(i, n) == IF i < 0 THEN i + n ELSE i

\* board[r][c] as Python evaluates it.
Rd(b, r, c) ==
    IF ~PyValid(r, Len(b)) THEN ERR
    ELSE LET line == b[PyIndex(r, Len(b)) + 1]
         IN  IF ~PyValid(c, Len(line)) THEN ERR
             ELSE line[PyIndex(c, Len(line)) + 1]

BoardHeight(b) == Len(b)

BoardWidth(b) == IF Len(b) > 0 THEN Len(b[1]) ELSE 0

\* _is_position_in_bounds
IsPositionInBounds(b, row, col) ==
    0 <= row /\ row < BoardHeight(b) /\ 0 <= col /\ col < BoardWidth(b)

\* _is_valid_position: strictly inside the outer border
IsValidPosition(b, row, col) ==
    0 < row /\ row < BoardHeight(b) - 1 /\ 0 < col /\ col < BoardWidth(b) - 1

\* 0 <= r < height and 0 <= c < width
InGrid(b, r, c) == r \in 0..(BoardHeight(b) - 1) /\ c \in 0..(BoardWidth(b) - 1)

\* The reads of a list of subscript pairs, in order: whether one raises, and
\* whether one that is carried out has a coordinate outside the grid.
ReadsRaise(b, reads) == \E i \in 1..Len(reads) : Rd(b, reads[i][1], reads[i][2]) = ERR

ReadsOob(b, reads) ==
    \E i \in 1..Len(reads) :
        /\ ~InGrid(b, reads[i][1], reads[i][2])
        /\ \A j \in 1..(i - 1) : Rd(b, reads[j][1], reads[j][2]) # ERR

(***************************************************************************)
(* Dead-space detection.                                                   *)
(***************************************************************************)
\* The subscripts _is_corner evaluates, in order: the list of four
\* conjunctions is built eagerly, each `and` short-circuits.
CornerReads(b, row, col) ==
    LET n == <<row - 1, col>>
        s == <<row + 1, col>>
        w == <<row, col - 1>>
        e == <<row, col + 1>>
        nw == Rd(b, row - 1, col) = WALL
        sw == Rd(b, row + 1, col) = WALL
    IN  <<n>> \o (IF nw THEN <<w>> ELSE <<>>) \o
        <<n>> \o (IF nw THEN <<e>> ELSE <<>>) \o
        <<s>> \o (IF sw THEN <<w>> ELSE <<>>) \o
        <<s>> \o (IF sw THEN <<e>> ELSE <<>>)

IsCornerVal(b, row, col) ==
    \/ Rd(b, row - 1, col) = WALL /\ Rd(b, row, col - 1) = WALL
    \/ Rd(b, row - 1, col) = WALL /\ Rd(b, row, col + 1) = WALL
    \/ Rd(b, row + 1, col) = WALL /\ Rd(b, row, col - 1) = WALL
    \/ Rd(b, row + 1, col) = WALL /\ Rd(b, row, col + 1) = WALL

\* _is_corner: its value, whether it raised, whether it read outside the grid
IsCorner(b, row, col) ==
    [val |-> IsCornerVal(b, row, col),
     err |-> ReadsRaise(b, CornerReads(b, row, col)),
     oob |-> ReadsOob(b, CornerReads(b, row, col))]

\* [[False for _ in range(width)] for _ in range(height)]
FalseMatrix(h, w) == [r \in 1..h |-> [c \in 1..w |-> FALSE]]

\* m[row][col] = v
MatSet(m, row, col, v) == [m EXCEPT ![row + 1][col + 1] = v]

\* A corner pass that forgets the goal test: a goal in a corner is marked dead.
MarkCellGoalsToo(b, m, row, col) ==
    \/ m[row + 1][col + 1]
    \/ Rd(b, row, col) = WALL
    \/ /\ Rd(b, row, col) # ERR
       /\ IsValidPosition(b, row, col)
       /\ IsCornerVal(b, row, col)

\* A corner pass that also looks at the cells of the outer border
MarkCellBorderToo(b, m, row, col) ==
    \/ m[row + 1][col + 1]
    \/ Rd(b, row, col) = WALL
    \/ /\ Rd(b, row, col) \notin {GOAL, ERR}
       /\ IsCornerVal(b, row, col)

\* The body of the double loop of _mark_walls_and_corners for one cell: the
\* new value of dead_space[row][col].  No cell's value depends on another's.
MarkCell(b, m, row, col) ==
    \/ m[row + 1][col + 1]
    \/ Rd(b, row, col) = WALL
    \/ /\ Rd(b, row, col) \notin {GOAL, ERR}
       /\ IsValidPosition(b, row, col)
       /\ IsCornerVal(b, row, col)

\* Whether that body raises, and whether it reads outside the grid.
MarkCellRaises(b, m, row, col) ==
    /\ ~m[row + 1][col + 1]
    /\ \/ Rd(b, row, col) = ERR
       \/ /\ Rd(b, row, col) \notin {WALL, GOAL}
          /\ IsValidPosition(b, row, col)
          /\ ReadsRaise(b, CornerReads(b, row, col))

MarkCellOob(b, m, row, col) ==
    /\ ~m[row + 1][col + 1]
    /\ \/ ~InGrid(b, row, col)
       \/ /\ Rd(b, row, col) \notin {WALL, GOAL, ERR}
          /\ IsValidPosition(b, row, col)
          /\ ReadsOob(b, CornerReads(b, row, col))

\* _mark_walls_and_corners; st = [m |-> matrix, err |-> raised, oob |-> read outside]
MarkWallsAndCorners(b, st) ==
    [m   |-> [r \in 1..BoardHeight(b) |->
                 [c \in 1..BoardWidth(b) |-> MarkCell(b, st.m, r - 1, c - 1)]],
     err |-> \E r \in 1..BoardHeight(b) : \E c \in 1..BoardWidth(b) :
                 MarkCellRaises(b, st.m, r - 1, c - 1),
     oob |-> \E r \in 1..BoardHeight(b) : \E c \in 1..BoardWidth(b) :
                 MarkCellOob(b, st.m, r - 1, c - 1)]

\* The bookkeeping of a precomputation step: note reads, note a raise.
Noted(st, oob) == [st EXCEPT !.oob = @ \/ oob]

Raised(st, oob) == [st EXCEPT !.err = TRUE, !.oob = @ \/ oob]

\* The subscripts one evaluation of the while condition of
\* _mark_horizontal_dead_zone makes at column c, stepping by d (-1 left, +1 right).
HScanReads(b, row, c, d) ==
    <<<<row, c + d>>>> \o
    (IF Rd(b, row, c + d) # WALL
     THEN <<<<row - 1, c>>>> \o
          (IF Rd(b, row - 1, c) = WALL THEN <<>> ELSE <<<<row + 1, c>>>>) \o
          (IF Rd(b, row - 1, c) = WALL \/ Rd(b, row + 1, c) = WALL
           THEN <<<<row, c>>>> ELSE <<>>)
     ELSE <<>>)

HScanGoes(b, row, c, d) ==
    /\ Rd(b, row, c + d) # WALL
    /\ (Rd(b, row - 1, c) = WALL \/ Rd(b, row + 1, c) = WALL)
    /\ Rd(b, row, c) # GOAL

\* The while loops of _mark_horizontal_dead_zone: the column where the walk
\* from c stops.
RECURSIVE HScan(_, _, _, _)
HScan(b, row, c, d) ==
    IF ~(IF d < 0 THEN c > 0 ELSE c < BoardWidth(b) - 1)
    THEN [end |-> c, err |-> FALSE, oob |-> FALSE]
    ELSE LET reads == HScanReads(b, row, c, d)
         IN  IF ReadsRaise(b, reads)
             THEN [end |-> c, err |-> TRUE, oob |-> ReadsOob(b, reads)]
             ELSE IF HScanGoes(b, row, c, d)
             THEN LET r == HScan(b, row, c + d, d)
                  IN  [r EXCEPT !.oob = @ \/ ReadsOob(b, reads)]
             ELSE [end |-> c, err |-> FALSE, oob |-> ReadsOob(b, reads)]

\* The same for _mark_vertical_dead_zone, at row r, stepping by d (-1 up, +1 down).
VScanReads(b, r, col, d) ==
    <<<<r + d, col>>>> \o
    (IF Rd(b, r + d, col) # WALL
     THEN <<<<r, col - 1>>>> \o
          (IF Rd(b, r, col - 1) = WALL THEN <<>> ELSE <<<<r, col + 1>>>>) \o
          (IF Rd(b, r, col - 1) = WALL \/ Rd(b, r, col + 1) = WALL
           THEN <<<<r, col>>>> ELSE <<>>)
     ELSE <<>>)

VScanGoes(b, r, col, d) ==
    /\ Rd(b, r + d, col) # WALL
    /\ (Rd(b, r, col - 1) = WALL \/ Rd(b, r, col + 1) = WALL)
    /\ Rd(b, r, col) # GOAL

RECURSIVE VScan(_, _, _, _)
VScan(b, r, col, d) ==
    IF ~(IF d < 0 THEN r > 0 ELSE r < BoardHeight(b) - 1)
    THEN [end |-> r, err |-> FALSE, oob |-> FALSE]
    ELSE LET reads == VScanReads(b, r, col, d)
         IN  IF ReadsRaise(b, reads)
             THEN [end |-> r, err |-> TRUE, oob |-> ReadsOob(b, reads)]
             ELSE IF VScanGoes(b, r, col, d)
             THEN LET x == VScan(b, r + d, col, d)
                  IN  [x EXCEPT !.oob = @ \/ ReadsOob(b, reads)]
             ELSE [end |-> r, err |-> FALSE, oob |-> ReadsOob(b, reads)]

\* An end test that accepts a corner whether or not it is marked dead
EndCheckCornerOnly(b, m, r, c) ==
    [ok  |-> ~IsCorner(b, r, c).err /\ IsCorner(b, r, c).val,
     err |-> IsCorner(b, r, c).err,
     oob |-> IsCorner(b, r, c).oob
                 \/ (~IsCorner(b, r, c).err /\ IsCorner(b, r, c).val /\ ~InGrid(b, r, c))]

\* An end test that accepts whatever cell the walk stopped on
EndCheckAnyEnd(b, m, r, c) == [ok |-> TRUE, err |-> FALSE, oob |-> FALSE]

\* `not self._is_corner(r, c) or not dead_space[r][c]`: the end of a walk is
\* accepted when it is a corner already marked dead.
EndCheck(b, m, r, c) ==
    LET k == IsCorner(b, r, c)
    IN  [ok  |-> ~k.err /\ k.val /\ m[r + 1][c + 1],
         err |-> k.err,
         oob |-> k.oob \/ (~k.err /\ k.val /\ ~InGrid(b, r, c))]

\* for current_col in range(left_col, right_col + 1): dead_space[row][current_col] = True
MarkRow(m, row, lo, hi) ==
    [m EXCEPT ![row + 1] = [c \in DOMAIN @ |-> IF lo + 1 <= c /\ c <= hi + 1 THEN TRUE ELSE @[c]]]

\* for current_row in range(top_row, bottom_row + 1): dead_space[current_row][col] = True
MarkCol(m, col, lo, hi) ==
    [r \in DOMAIN m |-> IF lo + 1 <= r /\ r <= hi + 1
                        THEN [m[r] EXCEPT ![col + 1] = TRUE] ELSE m[r]]

\* _mark_horizontal_dead_zone
MarkHorizontalDeadZone(b, st, row, col) ==
    LET L == HScan(b, row, col, -1)
    IN  IF L.err THEN Raised(st, L.oob)
        ELSE LET le == EndCheck(b, st.m, row, L.end)
             IN  IF le.err THEN Raised(st, L.oob \/ le.oob)
                 ELSE IF ~le.ok THEN Noted(st, L.oob \/ le.oob)
                 ELSE LET R == HScan(b, row, col, 1)
                      IN  IF R.err THEN Raised(st, L.oob \/ le.oob \/ R.oob)
                          ELSE LET re == EndCheck(b, st.m, row, R.end)
                                   seen == L.oob \/ le.oob \/ R.oob \/ re.oob
                               IN  IF re.err THEN Raised(st, seen)
                                   ELSE IF ~re.ok THEN Noted(st, seen)
                                   ELSE [m   |-> MarkRow(st.m, row, L.end, R.end),
                                         err |-> FALSE,
                                         oob |-> st.oob \/ seen]

\* _mark_vertical_dead_zone
MarkVerticalDeadZone(b, st, row, col) ==
    LET T == VScan(b, row, col, -1)
    IN  IF T.err THEN Raised(st, T.oob)
        ELSE LET te == EndCheck(b, st.m, T.end, col)
             IN  IF te.err THEN Raised(st, T.oob \/ te.oob)
                 ELSE IF ~te.ok THEN Noted(st, T.oob \/ te.oob)
                 ELSE LET B == VScan(b, row, col, 1)
                      IN  IF B.err THEN Raised(st, T.oob \/ te.oob \/ B.oob)
                          ELSE LET be == EndCheck(b, st.m, B.end, col)
                                   seen == T.oob \/ te.oob \/ B.oob \/ be.oob
                               IN  IF be.err THEN Raised(st, seen)
                                   ELSE IF ~be.ok THEN Noted(st, seen)
                                   ELSE [m   |-> MarkCol(st.m, col, T.end, B.end),
                                         err |-> FALSE,
                                         oob |-> st.oob \/ seen]

\* _should_check_dead_zone
ShouldCheckDeadZone(b, m, row, col) ==
    /\ Rd(b, row, col) # WALL
    /\ Rd(b, row, col) # GOAL
    /\ ~m[row + 1][col + 1]
    /\ IsValidPosition(b, row, col)

\* The body of the double loop of _mark_dead_zones for one cell.
DeadZoneCell(b, st, row, col) ==
    IF Rd(b, row, col) = ERR THEN Raised(st, ReadsOob(b, <<<<row, col>>>>))
    ELSE IF ~ShouldCheckDeadZone(b, st.m, row, col)
    THEN Noted(st, ReadsOob(b, <<<<row, col>>>>))
    ELSE LET hreads == <<<<row - 1, col>>>> \o
                       (IF Rd(b, row - 1, col) = WALL THEN <<>> ELSE <<<<row + 1, col>>>>)
             vreads == <<<<row, col - 1>>>> \o
                       (IF Rd(b, row, col - 1) = WALL THEN <<>> ELSE <<<<row, col + 1>>>>)
             s0 == Noted(st, ReadsOob(b, <<<<row, col>>>>))
             s1 == IF ReadsRaise(b, hreads) THEN Raised(s0, ReadsOob(b, hreads))
                   ELSE IF Rd(b, row - 1, col) = WALL \/ Rd(b, row + 1, col) = WALL
                   THEN MarkHorizontalDeadZone(b, Noted(s0, ReadsOob(b, hreads)), row, col)
                   ELSE Noted(s0, ReadsOob(b, hreads))
         IN  IF s1.err THEN s1
             ELSE IF ReadsRaise(b, vreads) THEN Raised(s1, ReadsOob(b, vreads))
             ELSE IF Rd(b, row, col - 1) = WALL \/ Rd(b, row, col + 1) = WALL
             THEN MarkVerticalDeadZone(b, Noted(s1, ReadsOob(b, vreads)), row, col)
             ELSE Noted(s1, ReadsOob(b, vreads))

\* _mark_dead_zones, from cell number i of the row-major scan on
RECURSIVE MarkDeadZonesFrom(_, _, _)
MarkDeadZonesFrom(b, st, i) ==
    IF st.err \/ i >= BoardHeight(b) * BoardWidth(b) THEN st
    ELSE MarkDeadZonesFrom(
             b, DeadZoneCell(b, st, i \div BoardWidth(b), i % BoardWidth(b)), i + 1)

MarkDeadZones(b, st) == MarkDeadZonesFrom(b, st, 0)

\* _generate_dead_space_matrix
GenerateDeadSpaceMatrix(b) ==
    MarkDeadZones(
        b, MarkWallsAndCorners(
               b, [m   |-> FalseMatrix(BoardHeight(b), BoardWidth(b)),
                   err |-> FALSE,
                   oob |-> FALSE]))

(***************************************************************************)
(* Goal distance tables and the heuristic.                                 *)
(***************************************************************************)
\* Whether Python accepts m[r][c] on a list of lists.
Readable(m, r, c) ==
    /\ PyValid(r, Len(m))
    /\ PyValid(c, Len(m[PyIndex(r, Len(m)) + 1]))

\* m[r][c] where Readable
Get(m, r, c) ==
    LET line == m[PyIndex(r, Len(m)) + 1]
    IN  line[PyIndex(c, Len(line)) + 1]

\* [[v] * width for _ in range(height)]
ConstMatrix(h, w, v) == [r \in 1..h |-> [c \in 1..w |-> v]]

\* Neighbours that walk through walls
RECURSIVE NeighboursThroughWalls(_, _, _, _)
NeighboursThroughWalls(b, pos, dist, i) ==
    IF i > Len(DirNames) THEN <<>>
    ELSE LET d == DIRECTIONS(DirNames[i])
             nr == pos[1] + d[1]
             nc == pos[2] + d[2]
         IN  (IF IsPositionInBounds(b, nr, nc)
              THEN <<[pos |-> <<nr, nc>>, dist |-> dist + 1]>> ELSE <<>>)
             \o NeighboursThroughWalls(b, pos, dist, i + 1)

\* The neighbours _compute_minimum_distances appends for one dequeued cell,
\* in the order of DIRECTIONS.
RECURSIVE Neighbours(_, _, _, _)
Neighbours(b, pos, dist, i) ==
    IF i > Len(DirNames) THEN <<>>
    ELSE LET d == DIRECTIONS(DirNames[i])
             nr == pos[1] + d[1]
             nc == pos[2] + d[2]
         IN  (IF IsPositionInBounds(b, nr, nc) /\ Rd(b, nr, nc) # WALL
              THEN <<[pos |-> <<nr, nc>>, dist |-> dist + 1]>> ELSE <<>>)
             \o Neighbours(b, pos, dist, i + 1)

\* Whether a board read made while expanding one dequeued cell raises.
NeighboursRaise(b, pos) ==
    \E i \in 1..Len(DirNames) :
        LET d == DIRECTIONS(DirNames[i])
        IN  /\ IsPositionInBounds(b, pos[1] + d[1], pos[2] + d[2])
            /\ Rd(b, pos[1] + d[1], pos[2] + d[2]) = ERR

\* The while loop of _compute_minimum_distances.
\* st = [queue, visited, distances, err]
RECURSIVE BfsLoop(_, _)
BfsLoop(b, st) ==
    IF st.err \/ st.queue = <<>> THEN st
    ELSE LET head == Head(st.queue)
             row == head.pos[1]
             col == head.pos[2]
         IN  IF st.visited[row + 1][col + 1]
             THEN BfsLoop(b, [st EXCEPT !.queue = Tail(@)])
             ELSE BfsLoop(b,
                      [queue     |-> Tail(st.queue) \o Neighbours(b, head.pos, head.dist, 1),
                       visited   |-> MatSet(st.visited, row, col, TRUE),
                       distances |-> MatSet(st.distances, row, col, head.dist),
                       err       |-> NeighboursRaise(b, head.pos)])

\* _compute_minimum_distances
ComputeMinimumDistances(b, start_pos) ==
    IF ~Readable(ConstMatrix(BoardHeight(b), BoardWidth(b), 0), start_pos[1], start_pos[2])
    THEN [distances |-> <<>>, err |-> TRUE]
    ELSE LET st == BfsLoop(b,
                       [queue     |-> <<[pos |-> start_pos, dist |-> 0]>>,
                        visited   |-> FalseMatrix(BoardHeight(b), BoardWidth(b)),
                        distances |-> MatSet(ConstMatrix(BoardHeight(b), BoardWidth(b), INFINITY),
                                             start_pos[1], start_pos[2], 0),
                        err       |-> FALSE])
         IN  [distances |-> st.distances, err |-> st.err]

\* The goal cells in row-major order, as the comprehension of __init__ lists them.
RECURSIVE GoalsInRow(_, _, _)
GoalsInRow(b, r, c) ==
    IF c > Len(b[r]) THEN <<>>
    ELSE (IF b[r][c] = GOAL THEN <<<<r - 1, c - 1>>>> ELSE <<>>) \o GoalsInRow(b, r, c + 1)

RECURSIVE GoalsFrom(_, _)
GoalsFrom(b, r) ==
    IF r > Len(b) THEN <<>> ELSE GoalsInRow(b, r, 1) \o GoalsFrom(b, r + 1)

GoalsPos(b) == GoalsFrom(b, 1)

SeqToSet(q) == {q[i] : i \in 1..Len(q)}

\* _precompute_distance_maps
PrecomputeDistanceMaps(b, goals) ==
    [map |-> [g \in SeqToSet(goals) |-> ComputeMinimumDistances(b, g).distances],
     err |-> \E g \in SeqToSet(goals) : ComputeMinimumDistances(b, g).err]

Min(S) == CHOOSE x \in S : \A y \in S : x <= y

Max(S) == CHOOSE x \in S : \A y \in S : x >= y

\* The same with the greatest table entry over the goals
BoxMaxDistance(map, goals, box) ==
    IF goals = <<>> THEN [val |-> 0, err |-> TRUE]
    ELSE IF \E i \in 1..Len(goals) : ~Readable(map[goals[i]], box[1], box[2])
    THEN [val |-> 0, err |-> TRUE]
    ELSE [val |-> Max({Get(map[goals[i]], box[1], box[2]) : i \in 1..Len(goals)}),
          err |-> FALSE]

\* The generator min() consumes for one box: one table entry per goal.
BoxMinDistance(map, goals, box) ==
    IF goals = <<>> THEN [val |-> 0, err |-> TRUE]
    ELSE IF \E i \in 1..Len(goals) : ~Readable(map[goals[i]], box[1], box[2])
    THEN [val |-> 0, err |-> TRUE]
    ELSE [val |-> Min({Get(map[goals[i]], box[1], box[2]) : i \in 1..Len(goals)}),
          err |-> FALSE]

\* _calculate_heuristic over the boxes from number i on
RECURSIVE HeuristicFrom(_, _, _, _)
HeuristicFrom(map, goals, boxes, i) ==
    IF i > Len(boxes) THEN [val |-> 0, err |-> FALSE]
    ELSE LET m == BoxMinDistance(map, goals, boxes[i])
         IN  IF m.err THEN m
             ELSE LET rest == HeuristicFrom(map, goals, boxes, i + 1)
                  IN  [val |-> m.val + rest.val, err |-> rest.err]

\* A heuristic that counts every distance twice
CalculateHeuristicTwice(map, goals, boxes) ==
    [val |-> 2 * HeuristicFrom(map, goals, boxes, 1).val,
     err |-> HeuristicFrom(map, goals, boxes, 1).err]

\* _calculate_heuristic
CalculateHeuristic(map, goals, boxes) == HeuristicFrom(map, goals, boxes, 1)

(***************************************************************************)
(* The A* search.                                                          *)
(***************************************************************************)
\* Python's order on (row, col) tuples
PosLess(p, q) == p[1] < q[1] \/ (p[1] = q[1] /\ p[2] < q[2])

\* sorted(): a stable insertion of x into a sorted sequence
RECURSIVE SortInsert(_, _)
SortInsert(q, x) ==
    IF q = <<>> THEN <<x>>
    ELSE IF PosLess(x, Head(q)) THEN <<x>> \o q
    ELSE <<Head(q)>> \o SortInsert(Tail(q), x)

\* A canonical form that keeps the boxes in the order the push left them
SortedAsGiven(q) == q

\* tuple(sorted(boxes_pos))
RECURSIVE Sorted(_)
Sorted(q) == IF q = <<>> THEN <<>> ELSE SortInsert(Sorted(SubSeq(q, 1, Len(q) - 1)), q[Len(q)])

\* `pos in boxes`
InList(pos, boxes) == \E i \in 1..Len(boxes) : boxes[i] = pos

\* boxes.index(pos)
IndexOf(pos, boxes) == CHOOSE i \in 1..Len(boxes) : boxes[i] = pos /\ \A j \in 1..(i - 1) : boxes[j] # pos

\* The boxes whose cell _is_goal_state reads: all() stops at the first box off a goal.
GoalStateReads(b, boxes) ==
    LET stop == {i \in 1..Len(boxes) : Rd(b, boxes[i][1], boxes[i][2]) # GOAL}
    IN  SubSeq(boxes, 1, IF stop = {} THEN Len(boxes) ELSE Min(stop))

\* A goal test that asks for a box on every goal instead
IsGoalStateAllGoals(b, boxes) ==
    [val |-> \A i \in 1..Len(GoalsPos(b)) : InList(GoalsPos(b)[i], boxes),
     err |-> FALSE,
     oob |-> FALSE]

\* _is_goal_state
IsGoalState(b, boxes) ==
    [val |-> \A i \in 1..Len(boxes) : Rd(b, boxes[i][1], boxes[i][2]) = GOAL,
     err |-> ReadsRaise(b, GoalStateReads(b, boxes)),
     oob |-> ReadsOob(b, GoalStateReads(b, boxes))]

\* An insertion before the first node whose f is greater or equal
InsertIndexBeforeEqual(fr, f) ==
    LET later == {i \in 1..Len(fr) : fr[i].g + fr[i].h >= f}
    IN  IF later = {} THEN Len(fr) + 1 ELSE Min(later)

\* An insertion that ignores f and puts every node first: a stack
InsertIndexFront(fr, f) == 1

\* The position in the fringe where _insert_into_fringe puts a node of value f:
\* before the first node whose f is greater, else at the end.
InsertIndex(fr, f) ==
    LET later == {i \in 1..Len(fr) : fr[i].g + fr[i].h > f}
    IN  IF later = {} THEN Len(fr) + 1 ELSE Min(later)

\* An insertion that stores the node over the one at position i
InsertAtOverwrite(q, i, x) == SubSeq(q, 1, i - 1) \o <<x>> \o SubSeq(q, i + 1, Len(q))

\* list.insert(index, x); list.append(x) for i = len + 1
InsertAt(q, i, x) == SubSeq(q, 1, i - 1) \o <<x>> \o SubSeq(q, i, Len(q))

\* An insertion that keeps the boxes of the node in the order given
InsertIntoFringeAsGiven(srch, closed, node) ==
    IF \E st \in closed : st = <<node.player, Sorted(node.boxes)>>
    THEN srch
    ELSE [fringe   |-> InsertAt(srch.fringe, InsertIndex(srch.fringe, node.g + node.h), node),
          expanded |-> srch.expanded + 1]

\* An insertion that does not look in the closed set
InsertIntoFringeAlways(srch, closed, node) ==
    [fringe   |-> InsertAt(srch.fringe, InsertIndex(srch.fringe, node.g + node.h),
                           [node EXCEPT !.boxes = Sorted(node.boxes)]),
     expanded |-> srch.expanded + 1]

\* An insertion that also drops a node whose state is in the frontier
InsertIntoFringeOnce(srch, closed, node) ==
    LET canon == Sorted(node.boxes)
    IN  IF \/ <<node.player, canon>> \in closed
           \/ \E i \in 1..Len(srch.fringe) :
                  <<srch.fringe[i].player, srch.fringe[i].boxes>> = <<node.player, canon>>
        THEN srch
        ELSE [fringe   |-> InsertAt(srch.fringe, InsertIndex(srch.fringe, node.g + node.h),
                                    [node EXCEPT !.boxes = canon]),
              expanded |-> srch.expanded + 1]

\* An insertion that counts the node before it looks in the closed set
InsertIntoFringeCountFirst(srch, closed, node) ==
    LET canon == Sorted(node.boxes)
    IN  IF <<node.player, canon>> \in closed
        THEN [srch EXCEPT !.expanded = srch.expanded + 1]
        ELSE [fringe   |-> InsertAt(srch.fringe, InsertIndex(srch.fringe, node.g + node.h),
                                    [node EXCEPT !.boxes = canon]),
              expanded |-> srch.expanded + 1]

\* _insert_into_fringe on the pair srch = [fringe, expanded]
InsertIntoFringe(srch, closed, node) ==
    LET canon == Sorted(node.boxes)
    IN  IF <<node.player, canon>> \in closed THEN srch
        ELSE [fringe   |-> InsertAt(srch.fringe, InsertIndex(srch.fringe, node.g + node.h),
                                    [node EXCEPT !.boxes = canon]),
              expanded |-> srch.expanded + 1]

\* A move test that looks at the bounds alone
IsMoveValidInBounds(b, pos) == IsPositionInBounds(b, pos[1], pos[2])

\* _is_move_valid
IsMoveValid(b, pos) ==
    /\ IsPositionInBounds(b, pos[1], pos[2])
    /\ Rd(b, pos[1], pos[2]) # WALL

\* A push test that does not look for a box on the cell pushed into
PushAcceptedOntoBox(b, dead, box_pos, d, boxes) ==
    LET nb == <<box_pos[1] + d[1], box_pos[2] + d[2]>>
    IN  /\ IsPositionInBounds(b, nb[1], nb[2])
        /\ Rd(b, nb[1], nb[2]) # WALL
        /\ ~dead[nb[1] + 1][nb[2] + 1]

\* A push test that looks up dead_space one cell too far
PushAcceptedLookAhead(b, dead, box_pos, d, boxes) ==
    LET nb == <<box_pos[1] + d[1], box_pos[2] + d[2]>>
        far == <<nb[1] + d[1], nb[2] + d[2]>>
    IN  /\ IsPositionInBounds(b, nb[1], nb[2])
        /\ Rd(b, nb[1], nb[2]) # WALL
        /\ ~InList(nb, boxes)
        /\ IsPositionInBounds(b, far[1], far[2]) => ~dead[far[1] + 1][far[2] + 1]

\* Whether _try_push_box accepts the push of the box at box_pos
PushAccepted(b, dead, box_pos, d, boxes) ==
    LET nb == <<box_pos[1] + d[1], box_pos[2] + d[2]>>
    IN  /\ IsPositionInBounds(b, nb[1], nb[2])
        /\ Rd(b, nb[1], nb[2]) # WALL
        /\ ~InList(nb, boxes)
        /\ ~dead[nb[1] + 1][nb[2] + 1]

\* A push that moves the first box of the list, whichever box is pushed
TryPushBoxFirst(b, dead, box_pos, d, boxes) ==
    IF PushAccepted(b, dead, box_pos, d, boxes)
    THEN [ok    |-> TRUE,
          boxes |-> [boxes EXCEPT ![1] = <<box_pos[1] + d[1], box_pos[2] + d[2]>>]]
    ELSE [ok |-> FALSE, boxes |-> boxes]

\* _try_push_box: the box list after the attempt
TryPushBox(b, dead, box_pos, d, boxes) ==
    IF PushAccepted(b, dead, box_pos, d, boxes)
    THEN [ok    |-> TRUE,
          boxes |-> [boxes EXCEPT ![IndexOf(box_pos, boxes)] =
                                      <<box_pos[1] + d[1], box_pos[2] + d[2]>>]]
    ELSE [ok |-> FALSE, boxes |-> boxes]

\* A loop body that gives the child its parent's g-cost
ChildSameCost(b, dead, map, goals, node, dir) ==
    LET d == DIRECTIONS(dir)
        np == <<node.player[1] + d[1], node.player[2] + d[2]>>
    IN  IF ~IsMoveValid(b, np) THEN [made |-> FALSE, err |-> FALSE]
        ELSE LET push == IF InList(np, node.boxes)
                         THEN TryPushBox(b, dead, np, d, node.boxes)
                         ELSE [ok |-> TRUE, boxes |-> node.boxes]
             IN  IF ~push.ok THEN [made |-> FALSE, err |-> FALSE]
                 ELSE LET hv == CalculateHeuristic(map, goals, push.boxes)
                      IN  IF hv.err THEN [made |-> FALSE, err |-> TRUE]
                          ELSE [made |-> TRUE, err |-> FALSE,
                                node |-> [player |-> np, boxes |-> push.boxes,
                                          g |-> node.g, h |-> hv.val,
                                          path |-> Append(node.path, dir)]]

\* The body of the for loop of _explore_moves for one direction: the child
\* node, if the move is generated.
Child(b, dead, map, goals, node, dir) ==
    LET d == DIRECTIONS(dir)
        np == <<node.player[1] + d[1], node.player[2] + d[2]>>
    IN  IF ~IsMoveValid(b, np) THEN [made |-> FALSE, err |-> FALSE]
        ELSE LET push == IF InList(np, node.boxes)
                         THEN TryPushBox(b, dead, np, d, node.boxes)
                         ELSE [ok |-> TRUE, boxes |-> node.boxes]
             IN  IF ~push.ok THEN [made |-> FALSE, err |-> FALSE]
                 ELSE LET hv == CalculateHeuristic(map, goals, push.boxes)
                      IN  IF hv.err THEN [made |-> FALSE, err |-> TRUE]
                          ELSE [made |-> TRUE, err |-> FALSE,
                                node |-> [player |-> np, boxes |-> push.boxes,
                                          g |-> node.g + 1, h |-> hv.val,
                                          path |-> Append(node.path, dir)]]

\* _explore_moves from direction number i on; srch = [fringe, expanded, err]
RECURSIVE ExploreFrom(_, _, _, _, _, _, _, _)
ExploreFrom(b, dead, map, goals, closed, node, srch, i) ==
    IF srch.err \/ i > Len(DirNames) THEN srch
    ELSE LET c == Child(b, dead, map, goals, node, DirNames[i])
             next == IF c.err THEN [srch EXCEPT !.err = TRUE]
                     ELSE IF ~c.made THEN srch
                     ELSE LET ins == InsertIntoFringe(
                                         [fringe |-> srch.fringe, expanded |-> srch.expanded],
                                         closed, c.node)
                          IN  [fringe |-> ins.fringe, expanded |-> ins.expanded, err |-> FALSE]
         IN  ExploreFrom(b, dead, map, goals, closed, node, next, i + 1)

\* _explore_moves
ExploreMoves(b, dead, map, goals, closed, node, fr, cnt) ==
    ExploreFrom(b, dead, map, goals, closed, node,
                [fringe |-> fr, expanded |-> cnt, err |-> FALSE], 1)

\* The board and dead_space subscripts the body of the for loop of
\* _explore_moves evaluates for one direction (_is_move_valid, _try_push_box).
ChildReads(b, node, dir) ==
    LET d == DIRECTIONS(dir)
        np == <<node.player[1] + d[1], node.player[2] + d[2]>>
        nb == <<np[1] + d[1], np[2] + d[2]>>
    IN  (IF IsPositionInBounds(b, np[1], np[2]) THEN <<np>> ELSE <<>>) \o
        (IF IsMoveValid(b, np) /\ InList(np, node.boxes) /\ IsPositionInBounds(b, nb[1], nb[2])
         THEN <<nb>> ELSE <<>>)

ExploreOob(b, node) == \E i \in 1..Len(DirNames) : ReadsOob(b, ChildReads(b, node, DirNames[i]))

\* A replay that moves the player and leaves the boxes where they are
VizMoveStepOnly(pos, boxes, move) ==
    LET d == DirectionsGet(move)
    IN  [pos |-> <<pos[1] + d[1], pos[2] + d[2]>>, boxes |-> boxes]

\* One move of the replay loop of visualize_solution: no check is made.
VizMove(pos, boxes, move) ==
    LET d == DirectionsGet(move)
        np == <<pos[1] + d[1], pos[2] + d[2]>>
    IN  [pos   |-> np,
         boxes |-> IF InList(np, boxes)
                   THEN [boxes EXCEPT ![IndexOf(np, boxes)] = <<np[1] + d[1], np[2] + d[2]>>]
                   ELSE boxes]

\* self.solution: None, or a move string
None == [some |-> FALSE, path |-> <<>>]

Some(path) == [some |-> TRUE, path |-> path]

(***************************************************************************)
(* The inputs.  A board has BoardH rows and BoardW columns.  A room is     *)
(* enclosed by wall and empty inside but for at most MaxGoals goals; a     *)
(* shaped board departs from a room by inner walls (at most MaxInnerWalls) *)
(* or by floor or goal cells on its outer border (at most MaxOpen) and has *)
(* at most MaxShapeGoals goals; a maze departs from it twice, with         *)
(* MaxMazeWalls inner walls or with a wall and an opening.  The caller     *)
(* builds a solver for a board from a level: at most MaxBoxes boxes in a   *)
(* room, MaxShapeBoxes on a shaped board, none in a maze, the player on    *)
(* one of the first MaxStarts free cells.                                  *)
(***************************************************************************)
BoardH == 5

BoardW == 5

MaxGoals == 2

MaxBoxes == 2

MaxInnerWalls == 1

MaxOpen == 1

MaxShapeGoals == 1

MaxShapeBoxes == 1

MaxStarts == 1

MaxFirstGoal == 1

MaxMazeWalls == 2

Cells == (0..(BoardH - 1)) \X (0..(BoardW - 1))

Interior == {p \in Cells : 0 < p[1] /\ p[1] < BoardH - 1 /\ 0 < p[2] /\ p[2] < BoardW - 1}

Border == Cells \ Interior

\* The border without the four corners of the grid, which touch no inner cell
Edge == {p \in Border : p[1] \in 1..(BoardH - 2) \/ p[2] \in 1..(BoardW - 2)}

SubsetsUpTo(S, k) == {T \in SUBSET S : Cardinality(T) <= k}

MkBoard(ws, os, gs) ==
    [r \in 1..BoardH |->
        [c \in 1..BoardW |->
            IF <<r - 1, c - 1>> \in gs THEN GOAL
            ELSE IF <<r - 1, c - 1>> \in ws \/ <<r - 1, c - 1>> \in (Border \ os) THEN WALL
            ELSE EMPTY]]

NonWall(b) == {p \in Cells : Rd(b, p[1], p[2]) # WALL}

\* The lists of at most k distinct cells of S, in ascending order.
BoxLists(S, k) ==
    {q \in UNION {[1..n -> S] : n \in 0..k} : \A i \in 1..(Len(q) - 1) : PosLess(q[i], q[i + 1])}

\* The cells of S with fewer than k cells of S before them in row-major order.
FirstCells(S, k) == {p \in S : Cardinality({q \in S : PosLess(q, p)}) < k}

\* Where the player starts: on one of the first free cells.
PlayerStarts(b, boxes) == FirstCells(NonWall(b) \ SeqToSet(boxes), MaxStarts)

\* The levels a caller builds a solver from on a well-formed board: the
\* boxes on distinct non-wall cells, the player on a free non-wall cell.
InnerWalls(b) == {p \in Interior : Rd(b, p[1], p[2]) = WALL}

Openings(b) == {p \in Border : Rd(b, p[1], p[2]) # WALL}

\* How many boxes a level on board b holds at most: a room MaxBoxes, a shaped
\* board MaxShapeBoxes, a maze none.
BoxBound(b) ==
    IF InnerWalls(b) \cup Openings(b) = {} THEN MaxBoxes
    ELSE IF Cardinality(InnerWalls(b) \cup Openings(b)) = 1 THEN MaxShapeBoxes
    ELSE 0

\* A level has a box for every goal; the caller also passes a level with no box,
\* and one box on a board with no goal.
BoxCounts(b) == {0, IF GoalsPos(b) = <<>> THEN 1 ELSE Len(GoalsPos(b))}

WellFormedLevels(b) ==
    UNION {UNION {{<<p, q>> : p \in PlayerStarts(b, q)} :
                  q \in {l \in BoxLists(NonWall(b), BoxBound(b)) : Len(l) \in counts}} :
           counts \in {BoxCounts(b)}}

\* The levels of a careless caller: a box on a wall (<<0, 0>>), two boxes on
\* one cell, a player or a box just outside the grid.
Outside == {<<-1, 1>>, <<BoardH, 1>>, <<1, -1>>, <<1, BoardW>>}

MalformedLevels ==
    {<<p, q>> : p \in {<<1, 1>>} \cup Outside,
                q \in UNION {[1..n -> {<<0, 0>>, <<2, 2>>, <<-1, 1>>, <<1, BoardW>>}] : n \in 0..2}}

\* The board the careless caller passes, and the same with a row cut short.
MalformedBoard == MkBoard({}, {}, {<<1, 2>>})

CutRow(b, r) == [b EXCEPT ![r] = SubSeq(@, 1, Len(@) - 1)]

ShortBoard == CutRow(MalformedBoard, 3)

Levels(b) ==
    IF b = ShortBoard THEN WellFormedLevels(MalformedBoard)
    ELSE IF b = MalformedBoard THEN WellFormedLevels(b) \cup MalformedLevels
    ELSE WellFormedLevels(b)

\* A search state whose containers are the ones the first instance uses
SharedSearchState ==
    [visited_states       |-> visited_states,
     fringe               |-> fringe,
     solution             |-> None,
     expanded_nodes_count |-> 0,
     visited_nodes_count  |-> 0]

\* The search state and statistics __init__ gives a new instance
NewSearchState ==
    [visited_states       |-> {},
     fringe               |-> <<>>,
     solution             |-> None,
     expanded_nodes_count |-> 0,
     visited_nodes_count  |-> 0]

\* The second instance before it is built
NoTwin ==
    [pc |-> "new", dead_space |-> <<>>, minimum_distance_map |-> <<>>, goals_pos |-> <<>>,
     search |-> NewSearchState, popped |-> <<>>, init_boxes_pos |-> <<>>]

\* No solver instance exists yet: the caller holds a board.
NoInstance ==
    /\ init_player_pos = <<0, 0>>
    /\ init_boxes_pos = <<>>
    /\ goals_pos = <<>>
    /\ width = 0
    /\ height = 0
    /\ dead_space = <<>>
    /\ minimum_distance_map = <<>>
    /\ visited_states = {}
    /\ fringe = <<>>
    /\ solution = None
    /\ expanded_nodes_count = 0
    /\ visited_nodes_count = 0
    /\ pc = "new"
    /\ oob_read = FALSE
    /\ viz_pos = <<0, 0>>
    /\ viz_boxes = <<>>
    /\ step_index = 0
    /\ explored = <<>>
    /\ popped = <<>>
    /\ twin = NoTwin

\* The rooms: of two or more goals, one is among the first MaxFirstGoal cells
\* of the interior.
Rooms ==
    {MkBoard({}, {}, gs) :
         gs \in {T \in SubsetsUpTo(Interior, MaxGoals) :
                     Cardinality(T) <= 1 \/ T \cap FirstCells(Interior, MaxFirstGoal) # {}}}

\* The shaped boards: one deviation from a room, a wall inside or an opening
ShapedWith(ws, os) == {MkBoard(ws, os, gs) : gs \in SubsetsUpTo((Interior \ ws) \cup os, MaxShapeGoals)}

Shapes ==
    UNION {ShapedWith(ws, {}) : ws \in SubsetsUpTo(Interior, MaxInnerWalls)}
    \cup UNION {ShapedWith({}, os) : os \in SubsetsUpTo(Edge, MaxOpen)}

Init ==
    /\ board \in Rooms \cup Shapes \cup {ShortBoard}
    /\ NoInstance

\* The mazes: two deviations from a room, of which at most one is an opening
Mazes ==
    UNION {{MkBoard(ws, {}, gs) : gs \in SubsetsUpTo(Interior \ ws, MaxGoals)} :
               ws \in {T \in SubsetsUpTo(Interior, MaxMazeWalls) : Cardinality(T) = MaxMazeWalls}}
    \cup UNION {ShapedWith(x[1], x[2]) :
                    x \in {T \in SubsetsUpTo(Interior, MaxInnerWalls) : T # {}}
                          \X {T \in SubsetsUpTo(Edge, MaxOpen) : T # {}}}

\* The four corners of the room, and the inner cells away from its walls
RoomCorners == {p \in Interior : p[1] \in {1, BoardH - 2} /\ p[2] \in {1, BoardW - 2}}

Core == {p \in Interior : 1 < p[1] /\ p[1] < BoardH - 2 /\ 1 < p[2] /\ p[2] < BoardW - 2}

\* The two cells of the border next to a corner of the room
GatesOf(p) == {q \in Edge : (q[1] = p[1] /\ q[2] \in {p[2] - 1, p[2] + 1})
                            \/ (q[2] = p[2] /\ q[1] \in {p[1] - 1, p[1] + 1})}

\* The yards: boards on which no floor cell is a corner.  Every corner of the
\* room holds a goal or has one of its two border cells open; a wall inside
\* stands away from the border.
Yards ==
    {b \in {MkBoard(x[1], {x[3][p] : p \in RoomCorners \ x[2]}, x[2]) :
                x \in {y \in SubsetsUpTo(Core, MaxInnerWalls)
                               \X SubsetsUpTo(Interior, MaxShapeGoals)
                               \X [RoomCorners -> Edge] :
                           /\ y[1] \cap y[2] = {}
                           /\ \A p \in RoomCorners : y[3][p] \in GatesOf(p)}} :
         \A p \in Interior : Rd(b, p[1], p[2]) = EMPTY => ~IsCornerVal(b, p[1], p[2])}

\* The boards whose precomputation alone is examined
InitBoards ==
    /\ board \in Rooms \cup Shapes \cup Mazes \cup Yards
    /\ NoInstance

(***************************************************************************)
(* The operations.                                                         *)
(***************************************************************************)
\* SokobanSolver.__init__(board, player_pos, boxes_pos), the precomputation
\* done: ds the dead-space pass, gp the goals, dm the distance maps.
Constructed(ds, gp, dm, player_pos, boxes_pos) ==
    /\ init_player_pos' = player_pos
    /\ init_boxes_pos' = boxes_pos
    /\ goals_pos' = gp
    /\ width' = BoardWidth(board)
    /\ height' = BoardHeight(board)
    /\ oob_read' = ds.oob
    /\ dead_space' = IF ds.err \/ dm.err THEN <<>> ELSE ds.m
    /\ minimum_distance_map' = IF ds.err \/ dm.err THEN <<>> ELSE dm.map
    /\ pc' = IF ds.err \/ dm.err THEN "init_raised" ELSE "constructed"
    /\ UNCHANGED <<board, explored, popped, twin, visited_states, fringe, solution, expanded_nodes_count,
                   visited_nodes_count, viz_pos, viz_boxes, step_index>>

\* SokobanSolver.__init__ on one of the caller's levels
Construct ==
    /\ pc = "new"
    /\ \E ds \in {GenerateDeadSpaceMatrix(board)} :
       \E gp \in {GoalsPos(board)} :
       \E dm \in {IF ds.err THEN [map |-> <<>>, err |-> TRUE]
                  ELSE PrecomputeDistanceMaps(board, gp)} :
       \E lv \in Levels(board) :
           Constructed(ds, gp, dm, lv[1], lv[2])

\* solve(), up to the while loop
SolveBegin ==
    /\ pc = "constructed"
    /\ \E hv \in {CalculateHeuristic(minimum_distance_map, goals_pos, init_boxes_pos)} :
       \E ins \in {InsertIntoFringe(
                       [fringe |-> fringe, expanded |-> expanded_nodes_count],
                       visited_states,
                       [player |-> init_player_pos, boxes |-> init_boxes_pos,
                        g |-> 0, h |-> hv.val, path |-> <<>>])} :
           IF hv.err
           THEN /\ pc' = "solve_raised"
                /\ UNCHANGED <<fringe, expanded_nodes_count>>
           ELSE /\ pc' = "loop"
                /\ fringe' = ins.fringe
                /\ expanded_nodes_count' = ins.expanded
    /\ UNCHANGED <<board, explored, popped, twin, init_player_pos, init_boxes_pos, goals_pos, width, height,
                   dead_space, minimum_distance_map, visited_states, solution,
                   visited_nodes_count, oob_read, viz_pos, viz_boxes, step_index>>

\* An iteration that counts a pop only once the node has passed the closed-set
\* test
LoopIterationCountsLate ==
    /\ pc = "loop"
    /\ fringe # <<>>
    /\ \E node \in {Head(fringe)} :
       \E rest \in {Tail(fringe)} :
       \E state \in {<<node.player, node.boxes>>} :
       \E goal \in {IsGoalState(board, node.boxes)} :
       \E ex \in {IF goal.err \/ goal.val \/ state \in visited_states
                  THEN [fringe |-> rest, expanded |-> expanded_nodes_count, err |-> FALSE]
                  ELSE ExploreMoves(board, dead_space, minimum_distance_map, goals_pos,
                                    visited_states \cup {state}, node, rest,
                                    expanded_nodes_count)} :
           /\ visited_nodes_count' = IF ~goal.err /\ ~goal.val /\ state \in visited_states
                                      THEN visited_nodes_count
                                      ELSE visited_nodes_count + 1
           /\ popped' = Append(popped, node)
           /\ IF goal.err
              THEN /\ pc' = "solve_raised"
                   /\ fringe' = rest
                   /\ oob_read' = (oob_read \/ goal.oob)
                   /\ UNCHANGED <<solution, visited_states, expanded_nodes_count, explored>>
              ELSE IF goal.val
              THEN /\ pc' = "done"
                   /\ solution' = Some(node.path)
                   /\ fringe' = rest
                   /\ oob_read' = (oob_read \/ goal.oob)
                   /\ UNCHANGED <<visited_states, expanded_nodes_count, explored>>
              ELSE IF state \in visited_states
              THEN /\ pc' = "loop"
                   /\ fringe' = rest
                   /\ oob_read' = (oob_read \/ goal.oob)
                   /\ UNCHANGED <<solution, visited_states, expanded_nodes_count, explored>>
              ELSE /\ visited_states' = visited_states \cup {state}
                   /\ fringe' = ex.fringe
                   /\ expanded_nodes_count' = ex.expanded
                   /\ oob_read' = (oob_read \/ goal.oob \/ ExploreOob(board, node))
                   /\ pc' = IF ex.err THEN "solve_raised" ELSE "loop"
                   /\ explored' = Append(explored, state)
                   /\ UNCHANGED solution
    /\ UNCHANGED <<board, init_player_pos, init_boxes_pos, goals_pos, width, height,
                   dead_space, minimum_distance_map, viz_pos, viz_boxes, step_index, twin>>

\* One iteration of the while loop of solve()
LoopIteration ==
    /\ pc = "loop"
    /\ fringe # <<>>
    /\ \E node \in {Head(fringe)} :
       \E rest \in {Tail(fringe)} :
       \E state \in {<<node.player, node.boxes>>} :
       \E goal \in {IsGoalState(board, node.boxes)} :
       \E ex \in {IF goal.err \/ goal.val \/ state \in visited_states
                  THEN [fringe |-> rest, expanded |-> expanded_nodes_count, err |-> FALSE]
                  ELSE ExploreMoves(board, dead_space, minimum_distance_map, goals_pos,
                                    visited_states \cup {state}, node, rest,
                                    expanded_nodes_count)} :
           /\ visited_nodes_count' = visited_nodes_count + 1
           /\ popped' = Append(popped, node)
           /\ IF goal.err
              THEN /\ pc' = "solve_raised"
                   /\ fringe' = rest
                   /\ oob_read' = (oob_read \/ goal.oob)
                   /\ UNCHANGED <<solution, visited_states, expanded_nodes_count, explored>>
              ELSE IF goal.val
              THEN /\ pc' = "done"
                   /\ solution' = Some(node.path)
                   /\ fringe' = rest
                   /\ oob_read' = (oob_read \/ goal.oob)
                   /\ UNCHANGED <<visited_states, expanded_nodes_count, explored>>
              ELSE IF state \in visited_states
              THEN /\ pc' = "loop"
                   /\ fringe' = rest
                   /\ oob_read' = (oob_read \/ goal.oob)
                   /\ UNCHANGED <<solution, visited_states, expanded_nodes_count, explored>>
              ELSE /\ visited_states' = visited_states \cup {state}
                   /\ fringe' = ex.fringe
                   /\ expanded_nodes_count' = ex.expanded
                   /\ oob_read' = (oob_read \/ goal.oob \/ ExploreOob(board, node))
                   /\ pc' = IF ex.err THEN "solve_raised" ELSE "loop"
                   /\ explored' = Append(explored, state)
                   /\ UNCHANGED solution
    /\ UNCHANGED <<board, init_player_pos, init_boxes_pos, goals_pos, width, height,
                   dead_space, minimum_distance_map, viz_pos, viz_boxes, step_index, twin>>

\* The while loop of solve() ends on an empty fringe: no solution
ReturnNone ==
    /\ pc = "loop"
    /\ fringe = <<>>
    /\ solution' = None
    /\ pc' = "done"
    /\ UNCHANGED <<board, explored, popped, twin, init_player_pos, init_boxes_pos, goals_pos, width, height,
                   dead_space, minimum_distance_map, visited_states, fringe,
                   expanded_nodes_count, visited_nodes_count, oob_read,
                   viz_pos, viz_boxes, step_index>>

\* main(): `if solution:` visualize_solution(solution), up to its while loop
VisualizeBegin ==
    /\ pc = "done"
    /\ IF solution.some /\ solution.path # <<>>
       THEN /\ pc' = "viz"
            /\ viz_pos' = init_player_pos
            /\ viz_boxes' = init_boxes_pos
            /\ step_index' = 0
       ELSE /\ pc' = "end"
            /\ UNCHANGED <<viz_pos, viz_boxes, step_index>>
    /\ UNCHANGED <<board, explored, popped, twin, init_player_pos, init_boxes_pos, goals_pos, width, height,
                   dead_space, minimum_distance_map, visited_states, fringe, solution,
                   expanded_nodes_count, visited_nodes_count, oob_read>>

\* One iteration of the animation loop of visualize_solution; a QUIT event
\* seen at the top of the iteration ends the loop after this move.
VisualizeStep ==
    /\ pc = "viz"
    /\ step_index < Len(solution.path)
    /\ \E quit \in BOOLEAN :
           LET mv == VizMove(viz_pos, viz_boxes, solution.path[step_index + 1])
           IN  /\ viz_pos' = mv.pos
               /\ viz_boxes' = mv.boxes
               /\ step_index' = step_index + 1
               /\ pc' = IF quit THEN "end" ELSE "viz"
    /\ UNCHANGED <<board, explored, popped, twin, init_player_pos, init_boxes_pos, goals_pos, width, height,
                   dead_space, minimum_distance_map, visited_states, fringe, solution,
                   expanded_nodes_count, visited_nodes_count, oob_read>>

\* The animation loop ends with the move string used up
VisualizeEnd ==
    /\ pc = "viz"
    /\ step_index = Len(solution.path)
    /\ pc' = "end"
    /\ UNCHANGED <<board, explored, popped, twin, init_player_pos, init_boxes_pos, goals_pos, width, height,
                   dead_space, minimum_distance_map, visited_states, fringe, solution,
                   expanded_nodes_count, visited_nodes_count, oob_read,
                   viz_pos, viz_boxes, step_index>>

Next ==
    \/ Construct
    \/ SolveBegin
    \/ LoopIteration
    \/ ReturnNone
    \/ VisualizeBegin
    \/ VisualizeStep
    \/ VisualizeEnd

Spec == Init /\ [][Next]_vars

\* Construction alone, over the larger family of boards
SpecBoards == InitBoards /\ [][Construct]_vars

(***************************************************************************)
(* A second instance, built from the same board, player position and box   *)
(* list once the first instance's solve() has ended, and solved in turn.   *)
(***************************************************************************)
FirstEnded == pc \in {"init_raised", "solve_raised", "done"}

TwinFrame ==
    UNCHANGED <<board, init_player_pos, init_boxes_pos, goals_pos, width, height,
                dead_space, minimum_distance_map, visited_states, fringe, solution,
                expanded_nodes_count, visited_nodes_count, pc, oob_read,
                viz_pos, viz_boxes, step_index, explored, popped>>

\* SokobanSolver.__init__(board, player_pos, boxes_pos), a second time.  The
\* goals and the two tables are computed from the board alone
\* (GoalsPos(board), GenerateDeadSpaceMatrix(board), PrecomputeDistanceMaps),
\* and the board is the one the first instance was given: the second
\* instance gets the values the first one computed, or raises as it did.
TwinConstruct ==
    /\ FirstEnded
    /\ twin.pc = "new"
    /\ twin' = [pc                   |-> IF pc = "init_raised" THEN "init_raised"
                                         ELSE "constructed",
                dead_space           |-> dead_space,
                minimum_distance_map |-> minimum_distance_map,
                goals_pos            |-> goals_pos,
                search               |-> NewSearchState,
                popped               |-> <<>>,
                init_boxes_pos       |-> init_boxes_pos]
    /\ TwinFrame

\* The box list q in another order
Reordered(q) ==
    {[i \in 1..Len(q) |-> q[f[i]]] :
         f \in {f \in [1..Len(q) -> 1..Len(q)] : \A i, j \in 1..Len(q) : f[i] = f[j] => i = j}}

\* SokobanSolver.__init__(board, player_pos, boxes_pos), a second time with
\* the boxes listed in another order: a level file lists them in any order
\* and a manual move replaces a box in place.  The goals and the two tables
\* are computed from the board alone, as in TwinConstruct.
TwinConstructPermuted ==
    /\ FirstEnded
    /\ twin.pc = "new"
    /\ \E q \in Reordered(init_boxes_pos) :
           twin' = [pc                   |-> IF pc = "init_raised" THEN "init_raised"
                                             ELSE "constructed",
                    dead_space           |-> dead_space,
                    minimum_distance_map |-> minimum_distance_map,
                    goals_pos            |-> goals_pos,
                    search               |-> NewSearchState,
                    popped               |-> <<>>,
                    init_boxes_pos       |-> q]
    /\ TwinFrame

\* solve() of the second instance, up to the while loop
TwinSolveBegin ==
    /\ twin.pc = "constructed"
    /\ \E hv \in {CalculateHeuristic(twin.minimum_distance_map, twin.goals_pos,
                                      twin.init_boxes_pos)} :
       \E ins \in {InsertIntoFringe(
                       [fringe |-> twin.search.fringe,
                        expanded |-> twin.search.expanded_nodes_count],
                       twin.search.visited_states,
                       [player |-> init_player_pos, boxes |-> twin.init_boxes_pos,
                        g |-> 0, h |-> hv.val, path |-> <<>>])} :
           twin' = IF hv.err
                   THEN [twin EXCEPT !.pc = "solve_raised"]
                   ELSE [twin EXCEPT !.pc = "loop",
                                     !.search.fringe = ins.fringe,
                                     !.search.expanded_nodes_count = ins.expanded]
    /\ TwinFrame

\* One iteration of the while loop of solve() of the second instance
TwinLoopIteration ==
    /\ twin.pc = "loop"
    /\ twin.search.fringe # <<>>
    /\ \E node \in {Head(twin.search.fringe)} :
       \E rest \in {Tail(twin.search.fringe)} :
       \E state \in {<<node.player, node.boxes>>} :
       \E goal \in {IsGoalState(board, node.boxes)} :
       \E ex \in {IF goal.err \/ goal.val \/ state \in twin.search.visited_states
                  THEN [fringe |-> rest, expanded |-> twin.search.expanded_nodes_count,
                        err |-> FALSE]
                  ELSE ExploreMoves(board, twin.dead_space, twin.minimum_distance_map,
                                    twin.goals_pos, twin.search.visited_states \cup {state},
                                    node, rest, twin.search.expanded_nodes_count)} :
       \E seen \in {[twin EXCEPT !.popped = Append(twin.popped, node),
                                 !.search.visited_nodes_count = @ + 1,
                                 !.search.fringe = rest]} :
           twin' = IF goal.err
                   THEN [seen EXCEPT !.pc = "solve_raised"]
                   ELSE IF goal.val
                   THEN [seen EXCEPT !.pc = "done", !.search.solution = Some(node.path)]
                   ELSE IF state \in twin.search.visited_states
                   THEN seen
                   ELSE [seen EXCEPT !.pc = IF ex.err THEN "solve_raised" ELSE "loop",
                                     !.search.visited_states = @ \cup {state},
                                     !.search.fringe = ex.fringe,
                                     !.search.expanded_nodes_count = ex.expanded]
    /\ TwinFrame

\* The while loop of the second instance ends on an empty fringe
TwinReturnNone ==
    /\ twin.pc = "loop"
    /\ twin.search.fringe = <<>>
    /\ twin' = [twin EXCEPT !.pc = "done", !.search.solution = None]
    /\ TwinFrame

\* A caller that builds and solves a level, then does the same again
NextTwin ==
    \/ Construct
    \/ SolveBegin
    \/ LoopIteration
    \/ ReturnNone
    \/ TwinConstruct
    \/ TwinSolveBegin
    \/ TwinLoopIteration
    \/ TwinReturnNone

SpecTwin == Init /\ [][NextTwin]_vars

\* A caller that builds and solves a level, then does the same with the
\* boxes listed in another order
NextPermuted ==
    \/ Construct
    \/ SolveBegin
    \/ LoopIteration
    \/ ReturnNone
    \/ TwinConstructPermuted
    \/ TwinSolveBegin
    \/ TwinLoopIteration
    \/ TwinReturnNone

SpecPermuted == Init /\ [][NextPermuted]_vars

\* What the instance holds when solve() is called a second time: kept for
\* comparison, the instance itself goes on in its own fields.
FirstCall ==
    [NoTwin EXCEPT !.pc = "again",
                   !.search = [visited_states       |-> visited_states,
                               fringe               |-> fringe,
                               solution             |-> solution,
                               expanded_nodes_count |-> expanded_nodes_count,
                               visited_nodes_count  |-> visited_nodes_count],
                   !.popped = popped,
                   !.init_boxes_pos = init_boxes_pos]

\* A second call that starts from a fresh search state
SolveAgainReset ==
    /\ pc = "done"
    /\ twin.pc = "new"
    /\ twin' = FirstCall
    /\ \E hv \in {CalculateHeuristic(minimum_distance_map, goals_pos, init_boxes_pos)} :
       \E ins \in {InsertIntoFringe(
                       [fringe |-> <<>>, expanded |-> 0],
                       {},
                       [player |-> init_player_pos, boxes |-> init_boxes_pos,
                        g |-> 0, h |-> hv.val, path |-> <<>>])} :
           /\ pc' = IF hv.err THEN "solve_raised" ELSE "loop"
           /\ fringe' = ins.fringe
           /\ expanded_nodes_count' = ins.expanded
           /\ visited_states' = {}
           /\ visited_nodes_count' = 0
    /\ UNCHANGED <<board, explored, popped, init_player_pos, init_boxes_pos, goals_pos, width,
                   height, dead_space, minimum_distance_map, solution,
                   oob_read, viz_pos, viz_boxes, step_index>>

\* solve() called a second time on the instance after it has returned, up
\* to the while loop: nothing is cleared, the start node is offered to the
\* frontier the first call left.
SolveAgain ==
    /\ pc = "done"
    /\ twin.pc = "new"
    /\ twin' = FirstCall
    /\ \E hv \in {CalculateHeuristic(minimum_distance_map, goals_pos, init_boxes_pos)} :
       \E ins \in {InsertIntoFringe(
                       [fringe |-> fringe, expanded |-> expanded_nodes_count],
                       visited_states,
                       [player |-> init_player_pos, boxes |-> init_boxes_pos,
                        g |-> 0, h |-> hv.val, path |-> <<>>])} :
           IF hv.err
           THEN /\ pc' = "solve_raised"
                /\ UNCHANGED <<fringe, expanded_nodes_count>>
           ELSE /\ pc' = "loop"
                /\ fringe' = ins.fringe
                /\ expanded_nodes_count' = ins.expanded
    /\ UNCHANGED <<board, explored, popped, init_player_pos, init_boxes_pos, goals_pos, width,
                   height, dead_space, minimum_distance_map, visited_states, solution,
                   visited_nodes_count, oob_read, viz_pos, viz_boxes, step_index>>

\* A caller that builds a solver and calls solve() on it twice
NextAgain ==
    \/ Construct
    \/ SolveBegin
    \/ LoopIteration
    \/ ReturnNone
    \/ SolveAgain

SpecAgain == Init /\ [][NextAgain]_vars

\* How many moves a player makes at most before restarting or leaving
MaxManualMoves == 4

\* What _handle_manual_move returns for a move it rejects
Rejected(player_pos, boxes_pos) == [pos |-> player_pos, boxes |-> boxes_pos, moved |-> FALSE]

\* A manual move that pushes a box without looking for a box behind it
HandleManualMoveOntoBox(b, direction, player_pos, boxes_pos) ==
    LET d  == DirectionsGet(direction)
        np == <<player_pos[1] + d[1], player_pos[2] + d[2]>>
        nb == <<np[1] + d[1], np[2] + d[2]>>
    IN  IF ~IsPositionInBounds(b, np[1], np[2]) THEN Rejected(player_pos, boxes_pos)
        ELSE IF Rd(b, np[1], np[2]) = WALL THEN Rejected(player_pos, boxes_pos)
        ELSE IF ~InList(np, boxes_pos) THEN [pos |-> np, boxes |-> boxes_pos, moved |-> TRUE]
        ELSE IF ~IsPositionInBounds(b, nb[1], nb[2]) THEN Rejected(player_pos, boxes_pos)
        ELSE IF Rd(b, nb[1], nb[2]) = WALL THEN Rejected(player_pos, boxes_pos)
        ELSE [pos   |-> np,
              boxes |-> [boxes_pos EXCEPT ![IndexOf(np, boxes_pos)] = nb],
              moved |-> TRUE]

\* SokobanGame._handle_manual_move
HandleManualMove(b, direction, player_pos, boxes_pos) ==
    LET d  == DirectionsGet(direction)
        np == <<player_pos[1] + d[1], player_pos[2] + d[2]>>
        nb == <<np[1] + d[1], np[2] + d[2]>>
    IN  IF ~IsPositionInBounds(b, np[1], np[2]) THEN Rejected(player_pos, boxes_pos)
        ELSE IF Rd(b, np[1], np[2]) = WALL THEN Rejected(player_pos, boxes_pos)
        ELSE IF ~InList(np, boxes_pos) THEN [pos |-> np, boxes |-> boxes_pos, moved |-> TRUE]
        ELSE IF ~IsPositionInBounds(b, nb[1], nb[2]) THEN Rejected(player_pos, boxes_pos)
        ELSE IF Rd(b, nb[1], nb[2]) = WALL THEN Rejected(player_pos, boxes_pos)
        ELSE IF InList(nb, boxes_pos) THEN Rejected(player_pos, boxes_pos)
        ELSE [pos   |-> np,
              boxes |-> [boxes_pos EXCEPT ![IndexOf(np, boxes_pos)] = nb],
              moved |-> TRUE]

\* The win test that ends the handling of a key press in play_manual: where
\* the game stands after it, `result` being where it stood before.
WinCheck(boxes, result) ==
    IF IsGoalState(board, boxes).err THEN "manual_raised"
    ELSE IF IsGoalState(board, boxes).val THEN "next"
    ELSE result

\* What play_manual leaves alone
ManualFrame ==
    UNCHANGED <<board, explored, popped, twin, init_player_pos, init_boxes_pos, goals_pos,
                width, height, dead_space, minimum_distance_map, visited_states, fringe,
                solution, expanded_nodes_count, visited_nodes_count, oob_read>>

\* play_manual up to its event loop
PlayManualBegin ==
    /\ pc = "constructed"
    /\ pc' = "manual"
    /\ viz_pos' = init_player_pos
    /\ viz_boxes' = init_boxes_pos
    /\ step_index' = 0
    /\ ManualFrame

\* A press of W, A, S or D: the move, the count, the win test
ManualKeyMove ==
    /\ pc = "manual"
    /\ step_index < MaxManualMoves
    /\ \E direction \in {"U", "L", "D", "R"} :
       \E mv \in {HandleManualMove(board, direction, viz_pos, viz_boxes)} :
           /\ viz_pos' = mv.pos
           /\ viz_boxes' = mv.boxes
           /\ step_index' = IF mv.moved THEN step_index + 1 ELSE step_index
           /\ pc' = WinCheck(mv.boxes, "manual")
    /\ ManualFrame

\* A press of R (restart), ESC (quit) or SPACE (auto), then the win test
ManualKeyOther ==
    /\ pc = "manual"
    /\ \E key \in {"r", "ESCAPE", "SPACE"} :
           IF key = "r"
           THEN /\ viz_pos' = init_player_pos
                /\ viz_boxes' = init_boxes_pos
                /\ step_index' = 0
                /\ pc' = WinCheck(init_boxes_pos, "manual")
           ELSE /\ pc' = WinCheck(viz_boxes, IF key = "SPACE" THEN "auto" ELSE "quit")
                /\ UNCHANGED <<viz_pos, viz_boxes, step_index>>
    /\ ManualFrame

\* A click on the restart, auto or exit button, or the window closed: no
\* win test follows
ManualClick ==
    /\ pc = "manual"
    /\ \E action_id \in {"restart", "auto", "exit", "QUIT"} :
           IF action_id = "restart"
           THEN /\ viz_pos' = init_player_pos
                /\ viz_boxes' = init_boxes_pos
                /\ step_index' = 0
                /\ pc' = "manual"
           ELSE /\ pc' = IF action_id = "auto" THEN "auto" ELSE "quit"
                /\ UNCHANGED <<viz_pos, viz_boxes, step_index>>
    /\ ManualFrame

\* A caller that builds a solver for a level and lets the player play
NextManual ==
    \/ Construct
    \/ PlayManualBegin
    \/ ManualKeyMove
    \/ ManualKeyOther
    \/ ManualClick

SpecManual == Init /\ [][NextManual]_vars


(***************************************************************************)
(* The game the properties are stated against: Sokoban as the rules define *)
(* it, with no dead-space restriction.  A position is a pair of the        *)
(* player's cell and the set of box cells.                                 *)
(***************************************************************************)
Pick(S) == CHOOSE x \in S : TRUE

Rectangular(b) == \A r \in 1..Len(b) : Len(b[r]) = Len(b[1])

OnFloor(b, p) == InGrid(b, p[1], p[2]) /\ Rd(b, p[1], p[2]) # WALL

\* A rectangular board, distinct boxes none on a wall, the player in bounds
\* on a non-wall cell that holds no box.
WellFormedInput(b, player, boxes) ==
    /\ Len(b) > 0
    /\ Rectangular(b)
    /\ \A i \in 1..Len(boxes) : OnFloor(b, boxes[i])
    /\ \A i, j \in 1..Len(boxes) : i # j => boxes[i] # boxes[j]
    /\ OnFloor(b, player)
    /\ ~InList(player, boxes)

WellFormed == WellFormedInput(board, init_player_pos, init_boxes_pos)

\* The positions one legal move leads to from position s: a step is blocked by
\* the bounds and by walls, a push by the bounds, walls and other boxes.
LegalSucc(b, s) ==
    UNION {LET d == DIRECTIONS(dir)
               np == <<s[1][1] + d[1], s[1][2] + d[2]>>
               nb == <<np[1] + d[1], np[2] + d[2]>>
           IN  IF ~OnFloor(b, np) THEN {}
               ELSE IF np \notin s[2] THEN {<<np, s[2]>>}
               ELSE IF OnFloor(b, nb) /\ nb \notin s[2] THEN {<<np, (s[2] \ {np}) \cup {nb}>>}
               ELSE {} : dir \in SeqToSet(DirNames)}

\* Every box on a goal cell
Solved(b, s) == \A p \in s[2] : Rd(b, p[1], p[2]) = GOAL

\* The length of a shortest legal move sequence from a position of `layer` to
\* a solved position, `depth` moves being made already; -1 if there is none.
RECURSIVE SolveDepth(_, _, _, _)
SolveDepth(b, layer, seen, depth) ==
    IF \E s \in layer : Solved(b, s) THEN depth
    ELSE IF layer = {} THEN -1
    ELSE Pick({SolveDepth(b, x[1], x[2], depth + 1) :
                   x \in {<<nl, seen \cup nl>> :
                              nl \in {UNION {LegalSucc(b, s) : s \in layer} \ seen}}})

ShortestSolution(b, player, boxes) ==
    Pick({SolveDepth(b, start, start, 0) : start \in {{<<player, SeqToSet(boxes)>>}}})

\* solve() has returned a move string, the no-solution value
ReturnedString == pc = "done" /\ solution.some

ReturnedNone == pc = "done" /\ ~solution.some

\* C1: on a well-formed input, when solve() returns a move string no legal
\* move sequence shorter than that string brings every box onto a goal.
C1_Optimality ==
    (ReturnedString /\ WellFormed) =>
        \A best \in {ShortestSolution(board, init_player_pos, init_boxes_pos)} :
            best = -1 \/ best >= Len(solution.path)

\* C1 happens: a string of several moves is returned for two boxes, and it is
\* exactly as long as the shortest legal solution.
C1_Witness ==
    /\ ReturnedString
    /\ WellFormed
    /\ Len(init_boxes_pos) = 2
    /\ Len(solution.path) >= 4
    /\ ShortestSolution(board, init_player_pos, init_boxes_pos) = Len(solution.path)

\* One character of a move string applied with the solver's step and push
\* rules, every one of them checked: ok turns FALSE at a rejected move.
CheckedMove(b, st, move) ==
    LET d == DIRECTIONS(move)
        np == <<st.pos[1] + d[1], st.pos[2] + d[2]>>
        nb == <<np[1] + d[1], np[2] + d[2]>>
    IN  IF ~st.ok \/ ~IsMoveValid(b, np) THEN [st EXCEPT !.ok = FALSE]
        ELSE IF ~InList(np, st.boxes) THEN [st EXCEPT !.pos = np]
        ELSE IF IsMoveValid(b, nb) /\ ~InList(nb, st.boxes)
        THEN [ok |-> TRUE, pos |-> np, boxes |-> [st.boxes EXCEPT ![IndexOf(np, st.boxes)] = nb]]
        ELSE [st EXCEPT !.ok = FALSE]

\* The first n characters of a move string applied from the initial state
RECURSIVE Replay(_, _, _, _, _)
Replay(b, pos, boxes, path, n) ==
    IF n = 0 THEN [ok |-> TRUE, pos |-> pos, boxes |-> boxes]
    ELSE Pick({CheckedMove(b, prev, path[n]) : prev \in {Replay(b, pos, boxes, path, n - 1)}})

\* visualize_solution is replaying the returned string, or has ended doing so
Replaying == pc \in {"viz", "end"} /\ solution.some /\ solution.path # <<>>

\* C2: the string solve() returns replays from the initial state without a
\* rejected step or push and ends with every box on a goal, and the unchecked
\* replay of visualize_solution is, move for move, in the state of that replay.
C2_ReplayContract ==
    /\ ReturnedString =>
           \A r \in {Replay(board, init_player_pos, init_boxes_pos, solution.path,
                            Len(solution.path))} :
               r.ok /\ Solved(board, <<r.pos, SeqToSet(r.boxes)>>)
    /\ Replaying =>
           \A r \in {Replay(board, init_player_pos, init_boxes_pos, solution.path, step_index)} :
               r.ok /\ r.pos = viz_pos /\ r.boxes = viz_boxes

\* C2 happens: the animation has replayed a whole string that pushes two boxes.
C2_Witness ==
    /\ pc = "end"
    /\ solution.some
    /\ step_index = Len(solution.path)
    /\ step_index >= 4
    /\ Len(init_boxes_pos) = 2
    /\ \A i \in 1..2 : viz_boxes[i] # init_boxes_pos[i]

\* C3: on a well-formed input solve() ends without a move string only if no
\* legal move sequence brings every box onto a goal.
C3_FailureComplete ==
    (WellFormed /\ (ReturnedNone \/ pc = "solve_raised")) =>
        ShortestSolution(board, init_player_pos, init_boxes_pos) = -1

\* C3 happens: a search over several positions of a level with a goal for its
\* box, which starts off the dead cells, ends empty-handed.
C3_Witness ==
    /\ ReturnedNone
    /\ WellFormed
    /\ init_boxes_pos # <<>>
    /\ Len(goals_pos) = Len(init_boxes_pos)
    /\ \A i \in 1..Len(init_boxes_pos) :
           ~dead_space[init_boxes_pos[i][1] + 1][init_boxes_pos[i][2] + 1]
    /\ visited_nodes_count >= 4

\* The non-wall cells the dead-space matrix marks dead
DeadCells(b, dead) == {c \in NonWall(b) : dead[c[1] + 1][c[2] + 1]}

\* The positions reachable by legal moves from the positions of `layer`
RECURSIVE Reachable(_, _, _)
Reachable(b, layer, seen) ==
    IF layer = {} THEN seen
    ELSE Pick({Reachable(b, x[1], x[2]) :
                   x \in {<<nl, seen \cup nl>> :
                              nl \in {UNION {LegalSucc(b, s) : s \in layer} \ seen}}})

\* One box on a dead cell, the player on any other non-wall cell
DeadStarts(b, dead) ==
    {<<p, {c}>> : p \in NonWall(b), c \in DeadCells(b, dead)} \ {<<c, {c}>> : c \in NonWall(b)}

\* C4: a single box on a non-wall cell marked dead is on no goal and no
\* sequence of legal moves brings it onto one, wherever the player stands.
C4_DeadSpaceSound ==
    pc = "constructed" =>
        \A from \in {DeadStarts(board, dead_space)} :
            \A s \in Reachable(board, from, from) : ~Solved(board, s)

\* C4 happens: the matrix of a board with a goal marks dead a cell that is no
\* corner, and leaves a cell without a goal alive.
C4_Witness ==
    /\ pc = "constructed"
    /\ goals_pos # <<>>
    /\ \E c \in DeadCells(board, dead_space) : ~IsCornerVal(board, c[1], c[2])
    /\ \E c \in NonWall(board) \ DeadCells(board, dead_space) : Rd(board, c[1], c[2]) = EMPTY

\* solve() has ended, by a return or by an exception
SolveEnded == pc \in {"done", "solve_raised", "viz", "end"}

\* C5: solve() ends only by popping a goal state or on an empty frontier.
C5_Termination == SolveEnded => pc # "solve_raised"

\* A wall on one vertical side and a wall on one horizontal side
CornerCell(b, p) ==
    /\ Rd(b, p[1] - 1, p[2]) = WALL \/ Rd(b, p[1] + 1, p[2]) = WALL
    /\ Rd(b, p[1], p[2] - 1) = WALL \/ Rd(b, p[1], p[2] + 1) = WALL

BoxOnNonGoalCorner ==
    \E i \in 1..Len(init_boxes_pos) :
        /\ IsValidPosition(board, init_boxes_pos[i][1], init_boxes_pos[i][2])
        /\ Rd(board, init_boxes_pos[i][1], init_boxes_pos[i][2]) = EMPTY
        /\ CornerCell(board, init_boxes_pos[i])

\* C6: with a box on a corner cell that is no goal, solve() ends on an empty
\* frontier and returns the no-solution value.
C6_UnsolvableDetected ==
    (WellFormed /\ BoxOnNonGoalCorner /\ SolveEnded) =>
        (pc # "solve_raised" /\ ~solution.some /\ fringe = <<>>)

\* C7: with no box, solve() returns the empty string at its first pop: one
\* node visited, one inserted, none closed.
C7_NoBoxes ==
    (init_boxes_pos = <<>> /\ pc \in {"loop", "done", "solve_raised"}) =>
        /\ pc # "solve_raised"
        /\ pc = "loop" => (visited_nodes_count = 0 /\ Len(fringe) = 1)
        /\ pc = "done" => /\ solution = Some(<<>>)
                          /\ visited_nodes_count = 1
                          /\ expanded_nodes_count = 1
                          /\ visited_states = {}

\* C7 happens: solve() has returned for no box on a board whose goals lie bare.
C7_Witness ==
    /\ pc = "done"
    /\ init_boxes_pos = <<>>
    /\ goals_pos # <<>>
    /\ visited_nodes_count = 1

\* C8: on a rectangular board no subscript of a read of board or dead_space
\* lies outside 0 <= r < height, 0 <= c < width.
C8_BoundsSafety == (Len(board) > 0 /\ Rectangular(board)) => ~oob_read

\* C9: a solver instance is constructed from a well-formed input only.
C9_FailFast == pc \notin {"new", "init_raised"} => WellFormed

\* C10: on a well-formed input solve() does not raise.
C10_SolveNeverRaises == WellFormed => pc # "solve_raised"

(***************************************************************************)
(* The search loop: closed set, frontier nodes, statistics.                *)
(***************************************************************************)
\* Two states with the same player cell and the same set of box cells
SameState(s, t) == s[1] = t[1] /\ SeqToSet(s[2]) = SeqToSet(t[2])

\* C11: over a run of solve() no canonical state (player cell, set of box
\* cells) is passed to _explore_moves twice; _explore_moves is called only on
\* the popped node's state, only when that state was not in the closed set
\* at the pop, and the state is closed by that step; the closed set only grows.
C11_NoReexpansion ==
    [][/\ visited_states \subseteq visited_states'
       /\ explored' # explored =>
              /\ pc = "loop"
              /\ fringe # <<>>
              /\ explored' = Append(explored, <<Head(fringe).player, Head(fringe).boxes>>)
              /\ <<Head(fringe).player, Head(fringe).boxes>> \notin visited_states
              /\ <<Head(fringe).player, Head(fringe).boxes>> \in visited_states'
              /\ \A i \in 1..Len(explored) :
                     ~SameState(explored[i], <<Head(fringe).player, Head(fringe).boxes>>)]_vars

\* A node whose state was closed after the node was inserted is about to be
\* popped and dropped, on a level with two boxes and several expansions made.
C11_Witness ==
    /\ pc = "loop"
    /\ fringe # <<>>
    /\ Len(explored) >= 2
    /\ Len(init_boxes_pos) = 2
    /\ <<Head(fringe).player, Head(fringe).boxes>> \in visited_states
    /\ ~IsGoalState(board, Head(fringe).boxes).val

\* The elements of a list are pairwise distinct
Distinct(q) == \A i, j \in 1..Len(q) : q[i] = q[j] => i = j

\* C12: when the initial boxes are pairwise distinct, every node in the
\* frontier holds pairwise distinct box cells, as many as there are initial
\* boxes.
C12_BoxSetInvariant ==
    Distinct(init_boxes_pos) =>
        \A i \in 1..Len(fringe) :
            /\ Distinct(fringe[i].boxes)
            /\ Len(fringe[i].boxes) = Len(init_boxes_pos)

\* A frontier node of a two-box level in which a box has been pushed next to
\* the other one
C12_Witness ==
    /\ Len(init_boxes_pos) = 2
    /\ Distinct(init_boxes_pos)
    /\ \E i \in 1..Len(fringe) :
           /\ SeqToSet(fringe[i].boxes) # SeqToSet(init_boxes_pos)
           /\ \E d \in {<<0, 1>>, <<1, 0>>} :
                  fringe[i].boxes[2] = <<fringe[i].boxes[1][1] + d[1], fringe[i].boxes[1][2] + d[2]>>

\* The number of nodes a step takes off the frontier: the while loop pops one
\* node per iteration, nothing else removes a node.
Pops == IF pc = "loop" /\ fringe # <<>> THEN 1 ELSE 0

\* C13: every step adds to expanded_nodes_count the number of nodes it puts
\* into the frontier and to visited_nodes_count the number of nodes it pops,
\* so that after every step expanded_nodes_count = visited_nodes_count +
\* len(fringe); when solve() has returned None the two counters are equal.
C13_Statistics ==
    [][/\ visited_nodes_count' - visited_nodes_count = Pops
       /\ expanded_nodes_count' - expanded_nodes_count = Len(fringe') - (Len(fringe) - Pops)
       /\ expanded_nodes_count' = visited_nodes_count' + Len(fringe')
       /\ (pc' = "done" /\ ~solution'.some) => expanded_nodes_count' = visited_nodes_count']_vars

\* solve() has returned None after several pops, some of them of nodes whose
\* state was already closed
C13_Witness ==
    /\ pc = "done"
    /\ ~solution.some
    /\ visited_nodes_count >= 4
    /\ Len(explored) < visited_nodes_count
    /\ expanded_nodes_count = visited_nodes_count

\* q is an initial segment of r
IsPrefix(q, r) == Len(q) <= Len(r) /\ \A i \in 1..Len(q) : q[i] = r[i]

CellsOf(b, ch) == {p \in Cells : Rd(b, p[1], p[2]) = ch}

\* C15: after the corner pass and the row and column dead-zone passes every
\* wall cell is marked dead and no goal cell is marked dead.
C15_WallsDeadGoalsAlive ==
    pc = "constructed" =>
        /\ \A p \in CellsOf(board, WALL) : dead_space[p[1] + 1][p[2] + 1]
        /\ \A p \in CellsOf(board, GOAL) : ~dead_space[p[1] + 1][p[2] + 1]

\* A goal in a corner of the room is left alive, next to a wall-hugging run
\* it cuts short, while another run between two dead corners is marked.
C15_Witness ==
    /\ pc = "constructed"
    /\ \E g \in CellsOf(board, GOAL) \cap Interior :
           /\ IsCornerVal(board, g[1], g[2])
           /\ ~dead_space[g[1] + 1][g[2] + 1]
           /\ \E d \in {<<0, 1>>, <<0, -1>>, <<1, 0>>, <<-1, 0>>} :
                  /\ Rd(board, g[1] + d[1], g[2] + d[2]) = EMPTY
                  /\ ~dead_space[g[1] + d[1] + 1][g[2] + d[2] + 1]
    /\ \E c \in DeadCells(board, dead_space) \cap Interior : ~IsCornerVal(board, c[1], c[2])

\* No floor cell of the board is a corner: an interior cell with a wall
\* north or south of it and a wall west or east of it
NoFloorCorner(b) == \A p \in CellsOf(b, EMPTY) \cap Interior : ~CornerCell(b, p)

\* C16: on a board none of whose floor cells is a corner, the full
\* dead-space precomputation marks no floor cell dead.
C16_NoCornerNoDeadFloor ==
    (pc = "constructed" /\ NoFloorCorner(board)) =>
        \A p \in CellsOf(board, EMPTY) : ~dead_space[p[1] + 1][p[2] + 1]

\* The matrix of a corner-free board was built; the row pass walked from a
\* floor cell under the top wall to a goal in a corner of the room.
C16_Witness ==
    /\ pc = "constructed"
    /\ NoFloorCorner(board)
    /\ \E p \in CellsOf(board, EMPTY) \cap Interior :
           /\ Rd(board, p[1] - 1, p[2]) = WALL
           /\ Rd(board, p[1], p[2] - 1) = GOAL
           /\ CornerCell(board, <<p[1], p[2] - 1>>)

(***************************************************************************)
(* The steps of solve(): what they leave alone, what a child looks like.   *)
(***************************************************************************)
\* A step of solve() is about to be taken
InSolve == pc \in {"constructed", "loop"}

\* The nodes a step of solve() leaves in the frontier: all but the popped one
Kept == IF pc = "loop" /\ fringe # <<>> THEN Tail(fringe) ELSE fringe

\* C17: a step of solve() changes none of board, dead_space,
\* minimum_distance_map, goals_pos, init_player_pos, init_boxes_pos; the
\* node it pops is the node that was inserted, and the nodes already in the
\* frontier stay in it, unchanged and in their order, among the new ones.
C17_ReadOnlyOracles ==
    [][InSolve =>
          /\ UNCHANGED <<board, dead_space, minimum_distance_map, goals_pos,
                         init_player_pos, init_boxes_pos>>
          /\ popped' # popped => popped' = Append(popped, Head(fringe))
          /\ SelectSeq(fringe', LAMBDA n : \E i \in 1..Len(Kept) : Kept[i] = n) = Kept]_vars

\* Between two iterations, with nodes waiting in the frontier, one of them
\* made by a push, on a level whose box list the caller still holds
C17_Witness ==
    /\ pc = "loop"
    /\ Len(explored) >= 2
    /\ Len(fringe) >= 3
    /\ init_boxes_pos # <<>>
    /\ \E i \in 1..Len(fringe) : SeqToSet(fringe[i].boxes) # SeqToSet(init_boxes_pos)

\* The node the next iteration of the loop pops, and what _explore_moves
\* makes of it in direction dir
Parent == Head(fringe)

ChildOf(dir) == Child(board, dead_space, minimum_distance_map, goals_pos, Parent, dir)

Dest(dir) == <<Parent.player[1] + DIRECTIONS(dir)[1], Parent.player[2] + DIRECTIONS(dir)[2]>>

Beyond(dir) == <<Dest(dir)[1] + DIRECTIONS(dir)[1], Dest(dir)[2] + DIRECTIONS(dir)[2]>>

AtLoop == pc = "loop" /\ fringe # <<>>

OnBoard(p) == p[1] \in 0..(height - 1) /\ p[2] \in 0..(width - 1)

\* C18: a child whose player cell held a box of the parent exists only if the
\* cell one further is on the board, no wall, free of boxes and not marked
\* dead; the child's boxes are the parent's with that box on the further
\* cell, and its player stands where the box was.
C18_PushRule ==
    AtLoop =>
        \A k \in 1..Len(DirNames) :
            \A c \in {ChildOf(DirNames[k])} :
            \A from \in {Dest(DirNames[k])} :
            \A to \in {Beyond(DirNames[k])} :
                (c.made /\ InList(from, Parent.boxes)) =>
                    /\ OnBoard(to)
                    /\ board[to[1] + 1][to[2] + 1] # WALL
                    /\ ~InList(to, Parent.boxes)
                    /\ ~dead_space[to[1] + 1][to[2] + 1]
                    /\ c.node.player = from
                    /\ Len(c.node.boxes) = Len(Parent.boxes)
                    /\ \E i \in 1..Len(Parent.boxes) :
                           /\ Parent.boxes[i] = from
                           /\ c.node.boxes[i] = to
                           /\ \A j \in 1..Len(Parent.boxes) :
                                  j # i => c.node.boxes[j] = Parent.boxes[j]

\* The node about to be expanded has two boxes; one direction pushes the
\* second box of its list, another runs the player into a box that cannot move.
C18_Witness ==
    /\ AtLoop
    /\ Len(Parent.boxes) = 2
    /\ \E k \in 1..Len(DirNames) :
           /\ ChildOf(DirNames[k]).made
           /\ Parent.boxes[2] = Dest(DirNames[k])
    /\ \E k \in 1..Len(DirNames) :
           /\ ~ChildOf(DirNames[k]).made
           /\ InList(Dest(DirNames[k]), Parent.boxes)

\* The cells next to p, one step up, down, left or right
Adjacent(p, q) ==
    \/ p[1] = q[1] /\ (p[2] - q[2]) \in {-1, 1}
    \/ p[2] = q[2] /\ (p[1] - q[1]) \in {-1, 1}

\* C19: a child exists for a direction only if the player's destination is
\* on the board and no wall; its player stands on that cell, one step from
\* the parent's, and when the cell held no box its boxes are the parent's.
C19_StepRule ==
    AtLoop =>
        \A k \in 1..Len(DirNames) :
            \A c \in {ChildOf(DirNames[k])} :
            \A to \in {Dest(DirNames[k])} :
                c.made =>
                    /\ OnBoard(to)
                    /\ board[to[1] + 1][to[2] + 1] # WALL
                    /\ c.node.player = to
                    /\ Adjacent(to, Parent.player)
                    /\ ~InList(to, Parent.boxes) => c.node.boxes = Parent.boxes

\* The node about to be expanded has a box; the player can step to a free
\* cell in one direction, faces a wall in another and the edge of the board
\* in a third.
C19_Witness ==
    /\ AtLoop
    /\ Parent.boxes # <<>>
    /\ \E k \in 1..Len(DirNames) :
           /\ ChildOf(DirNames[k]).made
           /\ ~InList(Dest(DirNames[k]), Parent.boxes)
    /\ \E k \in 1..Len(DirNames) :
           /\ OnBoard(Dest(DirNames[k]))
           /\ board[Dest(DirNames[k])[1] + 1][Dest(DirNames[k])[2] + 1] = WALL
    /\ \E k \in 1..Len(DirNames) : ~OnBoard(Dest(DirNames[k]))

\* The node n was put into the frontier by the step
NewNode(n) == \A i \in 1..Len(Kept) : Kept[i] # n

\* C20: every node a step of solve() puts into the frontier has g-cost equal
\* to the length of its path; the first node has the empty path, a child has
\* its parent's g-cost plus 1 and its parent's path plus one direction; and
\* the path, replayed from the initial state with the step and push rules,
\* ends on the node's player cell with the node's set of box cells.
C20_PathCost ==
    [][InSolve =>
          \A i \in 1..Len(fringe') :
              \A n \in {fringe'[i]} :
                  NewNode(n) =>
                      /\ n.g = Len(n.path)
                      /\ IF pc = "constructed"
                         THEN n.path = <<>>
                         ELSE /\ n.g = Parent.g + 1
                              /\ \E k \in 1..Len(DirNames) : n.path = Append(Parent.path, DirNames[k])
                      /\ \A r \in {Replay(board, init_player_pos, init_boxes_pos,
                                           n.path, Len(n.path))} :
                             /\ r.ok
                             /\ r.pos = n.player
                             /\ SeqToSet(r.boxes) = SeqToSet(n.boxes)]_vars

\* A node waits in the frontier whose path of four moves or more has pushed
\* both boxes of the level
C20_Witness ==
    /\ pc = "loop"
    /\ Len(init_boxes_pos) = 2
    /\ \E i \in 1..Len(fringe) :
           /\ fringe[i].g >= 4
           /\ SeqToSet(fringe[i].boxes) \cap SeqToSet(init_boxes_pos) = {}

(***************************************************************************)
(* The frontier as a priority queue, and the order of the loop's steps.    *)
(***************************************************************************)
F(n) == n.g + n.h

\* The number of the direction a node's path ends with
LastDir(n) == CHOOSE k \in 1..Len(DirNames) : DirNames[k] = n.path[Len(n.path)]

\* Node m was inserted before node n, both in the frontier after a step: m
\* was there before the step and n was not, or both are children made by
\* the step, m for the earlier direction.
InsertedBefore(m, n) ==
    \/ ~NewNode(m) /\ NewNode(n)
    \/ NewNode(m) /\ NewNode(n) /\ LastDir(m) < LastDir(n)

\* C21: after every step of solve() the frontier is sorted by f = g + h,
\* non-decreasing, so that the node popped next has the least f; of two
\* nodes with equal f the one inserted earlier stands first; a step keeps
\* the order of the nodes it leaves in the frontier.
C21_FrontierOrder ==
    [][InSolve =>
          /\ \A i \in 1..Len(fringe') : F(fringe'[1]) <= F(fringe'[i])
          /\ \A i, j \in 1..Len(fringe') :
                 i < j =>
                     /\ F(fringe'[i]) <= F(fringe'[j])
                     /\ F(fringe'[i]) = F(fringe'[j]) =>
                            ~InsertedBefore(fringe'[j], fringe'[i])
          /\ SelectSeq(fringe', LAMBDA n : ~NewNode(n)) = Kept]_vars

\* The frontier holds nodes of different f and several of equal f, two of
\* them children of different expansions
C21_Witness ==
    /\ pc = "loop"
    /\ Len(fringe) >= 4
    /\ F(fringe[1]) < F(fringe[Len(fringe)])
    /\ \E i \in 1..(Len(fringe) - 1) :
           /\ F(fringe[i]) = F(fringe[i + 1])
           /\ SubSeq(fringe[i].path, 1, Len(fringe[i].path) - 1)
                  # SubSeq(fringe[i + 1].path, 1, Len(fringe[i + 1].path) - 1)

\* The state of a node
StateOf(n) == <<n.player, n.boxes>>

\* C22: every pop raises visited_nodes_count by one, a dropped node's
\* included; a popped goal node ends solve() with its path, before any look
\* into the closed set; a popped node that is no goal and whose state is
\* closed is dropped, no child made, nothing else changed; any other popped
\* node has its state closed and then its children made, none of them with a
\* state of the closed set as it then is.
C22_LoopOrder ==
    [][popped' # popped =>
          \A node \in {Head(fringe)} :
          \A goal \in {IsGoalState(board, node.boxes)} :
              /\ popped' = Append(popped, node)
              /\ visited_nodes_count' = visited_nodes_count + 1
              /\ (~goal.err /\ goal.val) =>
                     /\ pc' = "done"
                     /\ solution' = Some(node.path)
                     /\ UNCHANGED <<visited_states, explored, expanded_nodes_count>>
              /\ (~goal.err /\ ~goal.val /\ StateOf(node) \in visited_states) =>
                     /\ pc' = "loop"
                     /\ fringe' = Tail(fringe)
                     /\ UNCHANGED <<visited_states, explored, expanded_nodes_count, solution>>
              /\ (~goal.err /\ ~goal.val /\ StateOf(node) \notin visited_states) =>
                     /\ visited_states' = visited_states \cup {StateOf(node)}
                     /\ explored' = Append(explored, StateOf(node))
                     /\ \A i \in 1..Len(fringe') :
                            NewNode(fringe'[i]) => StateOf(fringe'[i]) \notin visited_states']_vars

\* The loop is running after pops of all three kinds but the goal's: some
\* nodes were expanded, some dropped, and a node with a closed state waits
\* behind the head of the frontier.
C22_Witness ==
    /\ pc = "loop"
    /\ Len(explored) >= 3
    /\ visited_nodes_count >= Len(explored) + 2
    /\ Len(fringe) >= 2
    /\ StateOf(fringe[1]) \notin visited_states
    /\ StateOf(fringe[2]) \in visited_states

\* The closed set holds the state of node n, whatever the order of its boxes
ClosedHas(closed, n) == \E st \in closed : SameState(st, StateOf(n))

\* The directions for which the expansion of Parent makes a child, and those
\* of them whose child has a state outside the closed set
MadeDirs == {k \in 1..Len(DirNames) : ChildOf(DirNames[k]).made}

OpenDirs(closed) == {k \in MadeDirs : ~ClosedHas(closed, ChildOf(DirNames[k]).node)}

\* C23: of the children an expansion makes, those whose state is in the
\* closed set are not inserted and not counted; every other child is
\* inserted and counted once, also when a node of the same state is in the
\* frontier already.
C23_InsertionDedup ==
    [][(explored' # explored /\ pc' = "loop") =>
          \A open \in {OpenDirs(visited_states')} :
              /\ expanded_nodes_count' = expanded_nodes_count + Cardinality(open)
              /\ Len(fringe') = Len(Kept) + Cardinality(open)
              /\ \A k \in open :
                     \E i \in 1..Len(fringe') :
                         /\ NewNode(fringe'[i])
                         /\ fringe'[i].path = ChildOf(DirNames[k]).node.path
                         /\ SameState(StateOf(fringe'[i]), StateOf(ChildOf(DirNames[k]).node))
              /\ \A k \in MadeDirs \ open :
                     \A i \in 1..Len(fringe') :
                         fringe'[i].path # ChildOf(DirNames[k]).node.path]_vars

\* The frontier holds two nodes of one state, and the node about to be
\* expanded has a child whose state is closed and a child whose state is in
\* the frontier already.
C23_Witness ==
    /\ AtLoop
    /\ StateOf(Parent) \notin visited_states
    /\ ~IsGoalState(board, Parent.boxes).val
    /\ \E i, j \in 1..Len(fringe) : i < j /\ StateOf(fringe[i]) = StateOf(fringe[j])
    /\ \E k \in MadeDirs : ClosedHas(visited_states, ChildOf(DirNames[k]).node)
    /\ \E k \in OpenDirs(visited_states) :
           \E i \in 2..Len(fringe) : SameState(StateOf(fringe[i]), StateOf(ChildOf(DirNames[k]).node))

\* The child made for direction number k is in the frontier after the step
Inserted(k) == \E i \in 1..Len(fringe') : fringe'[i].path = ChildOf(DirNames[k]).node.path

\* C24 as stated: the closed set is looked into at the pop alone, so every
\* child an expansion makes is inserted into the frontier.
C24_ClosedOnlyAtPop ==
    [][(explored' # explored /\ pc' = "loop") => \A k \in MadeDirs : Inserted(k)]_vars

\* C24 as the source has it: the closed set is looked into at the insertion
\* and at the pop.  A child an expansion makes is inserted exactly when its
\* state is not closed at that moment; a popped node whose state was closed
\* in the meantime is dropped at the pop; the closed set never shrinks, so a
\* child refused at the insertion would have been dropped at its pop.
C24_ClosedAtInsertionAndPop ==
    [][/\ (explored' # explored /\ pc' = "loop") =>
              \A k \in MadeDirs :
                  Inserted(k) <=> ~ClosedHas(visited_states', ChildOf(DirNames[k]).node)
       /\ (popped' # popped /\ StateOf(Head(fringe)) \in visited_states) =>
              explored' = explored
       /\ visited_states \subseteq visited_states']_vars

\* The node about to be expanded has a child whose state is closed, which
\* the insertion refuses, while a node whose state is closed waits in the
\* frontier for the pop to drop it.
C24_Witness ==
    /\ AtLoop
    /\ StateOf(Parent) \notin visited_states
    /\ ~IsGoalState(board, Parent.boxes).val
    /\ \E k \in MadeDirs : ClosedHas(visited_states, ChildOf(DirNames[k]).node)
    /\ \E i \in 2..Len(fringe) : StateOf(fringe[i]) \in visited_states

\* C25: the heuristic value of a node, the sum over its boxes of the least
\* table entry at the box's cell over the goals, never exceeds the least
\* number of legal moves that brings every box of the node's state onto a
\* goal, and it is 0 when every box is on a goal.
C25_Admissible ==
    (AtLoop /\ WellFormed) =>
        /\ Parent.h = CalculateHeuristic(minimum_distance_map, goals_pos, Parent.boxes).val
        /\ \A best \in {ShortestSolution(board, Parent.player, Parent.boxes)} :
               best = -1 \/ Parent.h <= best
        /\ IsGoalState(board, Parent.boxes).val => Parent.h = 0

\* C25 happens: the node at the head of the frontier is some moves into the
\* search, has a positive heuristic value for two boxes, and its state can
\* be solved in more moves than the heuristic value says.
C25_Witness ==
    /\ AtLoop /\ WellFormed
    /\ Len(Parent.boxes) = 2
    /\ Parent.g > 0
    /\ Parent.h > 0
    /\ ShortestSolution(board, Parent.player, Parent.boxes) > Parent.h

\* The states one accepted move leads to from state s = <<player, boxes>>,
\* the boxes in canonical order: the pruned move graph.
PrunedSucc(s) ==
    {<<c.node.player, Sorted(c.node.boxes)>> :
        c \in {c \in {Child(board, dead_space, minimum_distance_map, goals_pos,
                            [player |-> s[1], boxes |-> s[2], g |-> 0, h |-> 0, path |-> <<>>],
                            DirNames[k]) : k \in 1..Len(DirNames)} : c.made}}

\* The least number of accepted moves from a state of `layer` to state t,
\* `depth` moves being made already; -1 if t is out of reach.
RECURSIVE PrunedDepth(_, _, _, _)
PrunedDepth(t, layer, seen, depth) ==
    IF t \in layer THEN depth
    ELSE IF layer = {} THEN -1
    ELSE Pick({PrunedDepth(t, x[1], x[2], depth + 1) :
                   x \in {<<nl, seen \cup nl>> :
                              nl \in {UNION {PrunedSucc(s) : s \in layer} \ seen}}})

\* The least g-cost of state t in the pruned move graph of the level
MinimalCost(t) ==
    Pick({PrunedDepth(t, start, start, 0) :
              start \in {{<<init_player_pos, Sorted(init_boxes_pos)>>}}})

\* The node popped by the step is the first one popped with its state
FirstPop == \A i \in 1..Len(popped) : ~SameState(StateOf(popped[i]), StateOf(Parent))

\* C26: the heuristic is consistent.  Along every edge an expansion
\* generates h drops by at most 1, so the child's f is at least the parent's;
\* the f-values of the nodes popped one after the other never decrease; and
\* the first node popped with a state carries the least g-cost of that state
\* in the pruned move graph.
C26_Consistency ==
    [][(popped' # popped /\ WellFormed) =>
          /\ (explored' # explored) =>
                 \A k \in MadeDirs :
                     /\ Parent.h - ChildOf(DirNames[k]).node.h <= 1
                     /\ F(ChildOf(DirNames[k]).node) >= F(Parent)
          /\ popped # <<>> => F(Parent) >= F(popped[Len(popped)])
          /\ FirstPop => Parent.g = MinimalCost(<<Parent.player, Sorted(Parent.boxes)>>)]_vars

\* C26 happens: the node about to be popped, some moves into the search, is
\* the first with its state while another node of the same state waits in
\* the frontier; its f is above that of the node popped before it, and one
\* of its children has a smaller h, a push towards a goal.
C26_Witness ==
    /\ AtLoop /\ WellFormed
    /\ FirstPop
    /\ Parent.g > 1
    /\ StateOf(Parent) \notin visited_states
    /\ ~IsGoalState(board, Parent.boxes).val
    /\ \E i \in 2..Len(fringe) : SameState(StateOf(fringe[i]), StateOf(Parent))
    /\ popped # <<>> /\ F(Parent) > F(popped[Len(popped)])
    /\ \E k \in MadeDirs : ChildOf(DirNames[k]).node.h = Parent.h - 1

\* The length of a shortest path of orthogonal steps through non-wall cells
\* from a cell of `layer` to cell c, `depth` steps being made already; the
\* sentinel if there is none.
RECURSIVE PathLength(_, _, _, _, _)
PathLength(b, c, layer, seen, depth) ==
    IF c \in layer THEN depth
    ELSE IF layer = {} THEN INFINITY
    ELSE Pick({PathLength(b, c, x[1], x[2], depth + 1) :
                   x \in {<<nl, seen \cup nl>> :
                              nl \in {{q \in NonWall(b) \ seen :
                                          \E p \in layer : Adjacent(p, q)}}}})

\* C27: the table entry for goal g and cell c is the length of a shortest
\* path of orthogonal steps from g to c through non-wall cells, boxes
\* ignored: 0 at g, and the sentinel 999999 at every wall cell and at every
\* cell no such path reaches.
C27_DistanceTable ==
    pc = "constructed" =>
        \A g \in SeqToSet(goals_pos) :
            /\ minimum_distance_map[g][g[1] + 1][g[2] + 1] = 0
            /\ \A c \in Cells :
                   minimum_distance_map[g][c[1] + 1][c[2] + 1] =
                       IF Rd(board, c[1], c[2]) = WALL THEN INFINITY
                       ELSE PathLength(board, c, {g}, {g}, 0)

\* C27 happens: the table of a goal holds the sentinel at a non-wall cell
\* walled off from the goal, and at another cell a distance the walls make
\* longer than the row and column difference.
C27_Witness ==
    /\ pc = "constructed"
    /\ \E g \in SeqToSet(goals_pos) :
           /\ \E c \in NonWall(board) : minimum_distance_map[g][c[1] + 1][c[2] + 1] = INFINITY
           /\ \E c \in NonWall(board) :
                  /\ minimum_distance_map[g][c[1] + 1][c[2] + 1] < INFINITY
                  /\ minimum_distance_map[g][c[1] + 1][c[2] + 1] >
                         (IF c[1] > g[1] THEN c[1] - g[1] ELSE g[1] - c[1])
                       + (IF c[2] > g[2] THEN c[2] - g[2] ELSE g[2] - c[2])

\* The matrix _mark_walls_and_corners leaves when handed the all-False
\* matrix _generate_dead_space_matrix builds for board b
CornerPass(b) ==
    MarkWallsAndCorners(b, [m   |-> FalseMatrix(BoardHeight(b), BoardWidth(b)),
                            err |-> FALSE,
                            oob |-> FALSE])

WallAt(b, r, c) == Rd(b, r, c) = WALL

\* C28: after the corner pass a floor cell is marked dead exactly when it is
\* an interior cell with a wall north or south of it and a wall west or east
\* of it; no floor cell of the outer border is marked by the pass.
C28_CornerPass ==
    pc # "new" =>
        \A st \in {CornerPass(board)} :
            /\ ~st.err
            /\ \A p \in CellsOf(board, EMPTY) :
                   st.m[p[1] + 1][p[2] + 1] <=>
                       /\ p \in Interior
                       /\ WallAt(board, p[1] - 1, p[2]) \/ WallAt(board, p[1] + 1, p[2])
                       /\ WallAt(board, p[1], p[2] - 1) \/ WallAt(board, p[1], p[2] + 1)
            /\ \A p \in CellsOf(board, EMPTY) \cap Border : ~st.m[p[1] + 1][p[2] + 1]

\* C28 happens: the pass has run on a board with a floor cell in the outer
\* border that has walls on two sides and is left unmarked, an interior floor
\* corner that is marked, and an interior floor cell between two opposite
\* walls only that is left unmarked.
C28_Witness ==
    /\ pc # "new"
    /\ \E st \in {CornerPass(board)} :
           /\ \E p \in CellsOf(board, EMPTY) \cap Border :
                  /\ IsCornerVal(board, p[1], p[2])
                  /\ ~st.m[p[1] + 1][p[2] + 1]
           /\ \E p \in CellsOf(board, EMPTY) \cap Interior : st.m[p[1] + 1][p[2] + 1]
           /\ \E p \in CellsOf(board, EMPTY) \cap Interior :
                  /\ WallAt(board, p[1], p[2] - 1) /\ WallAt(board, p[1], p[2] + 1)
                  /\ ~st.m[p[1] + 1][p[2] + 1]

\* Every cell of the outer border of board b is a wall
Enclosed(b) == \A p \in Border : WallAt(b, p[1], p[2])

\* A floor cell that is an interior corner: what the corner pass marks
DeadCorner(b, p) ==
    /\ p \in Interior
    /\ Rd(b, p[1], p[2]) = EMPTY
    /\ WallAt(b, p[1] - 1, p[2]) \/ WallAt(b, p[1] + 1, p[2])
    /\ WallAt(b, p[1], p[2] - 1) \/ WallAt(b, p[1], p[2] + 1)

\* Cell p lies in a horizontal run of floor cells, each with a wall north or
\* south of it, whose two end cells are dead corners
InHorizontalRun(b, p) ==
    \E lo \in 0..p[2] : \E hi \in p[2]..(BoardW - 1) :
        /\ \A c \in lo..hi :
               Rd(b, p[1], c) = EMPTY /\ (WallAt(b, p[1] - 1, c) \/ WallAt(b, p[1] + 1, c))
        /\ DeadCorner(b, <<p[1], lo>>)
        /\ DeadCorner(b, <<p[1], hi>>)

\* The same for a vertical run, each cell with a wall west or east of it
InVerticalRun(b, p) ==
    \E lo \in 0..p[1] : \E hi \in p[1]..(BoardH - 1) :
        /\ \A r \in lo..hi :
               Rd(b, r, p[2]) = EMPTY /\ (WallAt(b, r, p[2] - 1) \/ WallAt(b, r, p[2] + 1))
        /\ DeadCorner(b, <<lo, p[2]>>)
        /\ DeadCorner(b, <<hi, p[2]>>)

\* The double loop of _mark_dead_zones visiting the cells in the order of
\* the sequence `order`, from its element number i on
RECURSIVE MarkDeadZonesIn(_, _, _, _)
MarkDeadZonesIn(b, st, order, i) ==
    IF st.err \/ i > Len(order) THEN st
    ELSE MarkDeadZonesIn(b, DeadZoneCell(b, st, order[i][1], order[i][2]), order, i + 1)

\* Scan orders other than the source's: row by row backwards, column by
\* column, column by column backwards
RowMajor == [i \in 1..(BoardH * BoardW) |-> <<(i - 1) \div BoardW, (i - 1) % BoardW>>]

ColMajor == [i \in 1..(BoardH * BoardW) |-> <<(i - 1) % BoardH, (i - 1) \div BoardH>>]

Backwards(q) == [i \in 1..Len(q) |-> q[Len(q) + 1 - i]]

ScanOrders == {Backwards(RowMajor), ColMajor, Backwards(ColMajor)}

\* The cells matrix m marks
Marked(m) == {q \in Cells : m[q[1] + 1][q[2] + 1]}

\* The cells marked when the dead-zone pass visits cell p alone on state st
MarkedFrom(b, st, p) == UNION {Marked(x.m) : x \in {DeadZoneCell(b, st, p[1], p[2])}}

\* C29: on a wall-enclosed board an interior floor cell that is not a
\* corner is marked dead exactly when it lies in a horizontal run of floor
\* cells each with a wall north or south, or in a vertical run of floor
\* cells each with a wall west or east, both end cells of the run being dead
\* corners; and the matrix is the same in whatever order the dead-zone pass
\* visits the cells: it is the one three other scan orders give, and it is
\* the union of what each cell marks when visited alone.
C29_DeadZones ==
    (pc = "constructed" /\ Enclosed(board)) =>
        /\ \A p \in CellsOf(board, EMPTY) \cap Interior :
               ~DeadCorner(board, p) =>
                   (dead_space[p[1] + 1][p[2] + 1] <=>
                        InHorizontalRun(board, p) \/ InVerticalRun(board, p))
        /\ \A cp \in {CornerPass(board)} :
               /\ \A order \in ScanOrders :
                      \A st \in {MarkDeadZonesIn(board, cp, order, 1)} :
                          ~st.err /\ st.m = dead_space
               /\ Marked(dead_space) = UNION {MarkedFrom(board, cp, p) : p \in Cells}

\* C29 happens: on a wall-enclosed board one floor cell between two dead
\* corners is marked, and another floor cell with a wall beside it is left
\* alive because the walk from it ends on a cell that is no dead corner.
C29_Witness ==
    /\ pc = "constructed" /\ Enclosed(board)
    /\ \E p \in CellsOf(board, EMPTY) \cap Interior :
           /\ ~DeadCorner(board, p)
           /\ dead_space[p[1] + 1][p[2] + 1]
    /\ \E p \in CellsOf(board, EMPTY) \cap Interior :
           /\ ~DeadCorner(board, p)
           /\ ~dead_space[p[1] + 1][p[2] + 1]
           /\ WallAt(board, p[1] - 1, p[2]) \/ WallAt(board, p[1] + 1, p[2])

\* C30: a second instance built from the same board and player position with
\* the boxes listed in another order starts from the same canonical state as
\* the first one, pops the same nodes step for step, and its solve() ends as
\* the first one's did, with the same move string (or None) and the same
\* expanded and visited counts.
C30_BoxOrderIndependence ==
    /\ twin.pc # "new" => SeqToSet(twin.init_boxes_pos) = SeqToSet(init_boxes_pos)
                            /\ Len(twin.init_boxes_pos) = Len(init_boxes_pos)
    /\ (twin.pc = "loop" /\ twin.popped = <<>>) =>
           /\ Len(twin.search.fringe) = 1
           /\ StateOf(Head(twin.search.fringe)) = <<init_player_pos, Sorted(init_boxes_pos)>>
           /\ Head(twin.search.fringe) = popped[1]
    /\ IsPrefix(twin.popped, popped)
    /\ twin.pc \in {"solve_raised", "done"} =>
           /\ pc = twin.pc
           /\ solution = twin.search.solution
           /\ expanded_nodes_count = twin.search.expanded_nodes_count
           /\ visited_nodes_count = twin.search.visited_nodes_count

\* C30 happens: the second instance was given the two boxes in the other
\* order, and both instances have returned a move string of several moves.
C30_Witness ==
    /\ twin.init_boxes_pos # init_boxes_pos
    /\ Len(init_boxes_pos) = 2
    /\ pc = "done"
    /\ twin.pc = "done"
    /\ twin.search.solution.some
    /\ Len(twin.search.solution.path) >= 3
    /\ twin.search.visited_nodes_count >= 5

\* The initial state C31 starts from: the player in bounds on a non-wall
\* cell that holds no box, every box in bounds on a non-wall cell
InitialOnFloor ==
    /\ Len(board) > 0
    /\ Rectangular(board)
    /\ OnFloor(board, init_player_pos)
    /\ ~InList(init_player_pos, init_boxes_pos)
    /\ \A i \in 1..Len(init_boxes_pos) : OnFloor(board, init_boxes_pos[i])

\* Node n is well formed: the player in bounds on a non-wall cell that holds
\* no box, every box in bounds on a non-wall cell, and every box on a dead
\* cell on a cell an initial box stood on
NodeWellFormed(n) ==
    /\ OnFloor(board, n.player)
    /\ ~InList(n.player, n.boxes)
    /\ \A i \in 1..Len(n.boxes) :
           /\ OnFloor(board, n.boxes[i])
           /\ dead_space[n.boxes[i][1] + 1][n.boxes[i][2] + 1] =>
                  InList(n.boxes[i], init_boxes_pos)

\* C31: when the initial state has the player in bounds on a non-wall cell
\* that holds no box and every box in bounds on a non-wall cell, every node
\* in the frontier is well formed.
C31_SearchStateWellFormed ==
    (pc = "loop" /\ InitialOnFloor) =>
        \A i \in 1..Len(fringe) : NodeWellFormed(fringe[i])

\* Right, Left, Down, Up: the place of a move character in that order
MoveRank(ch) ==
    CASE ch = "R" -> 1
      [] ch = "L" -> 2
      [] ch = "D" -> 3
      [] ch = "U" -> 4
      [] OTHER    -> 0

\* The last move of a node's path
LastMove(n) == n.path[Len(n.path)]

\* Nodes m and n are children of one node
Siblings(m, n) ==
    /\ m.path # <<>>
    /\ Len(m.path) = Len(n.path)
    /\ SubSeq(m.path, 1, Len(m.path) - 1) = SubSeq(n.path, 1, Len(n.path) - 1)

\* C32: the children of an expanded node are made and offered to the
\* frontier in the order Right, Left, Down, Up: each new node extends its
\* parent's path by one of the four characters, and of two new nodes with
\* equal f, which the frontier keeps in the order they were offered, the one
\* for the earlier direction stands first.  A returned move string is made
\* of the characters R, L, D, U alone.
C32_DirectionOrder ==
    [][/\ (explored' # explored /\ pc' = "loop") =>
              /\ \A i \in 1..Len(fringe') :
                     NewNode(fringe'[i]) =>
                         /\ fringe'[i].path = Append(Parent.path, LastMove(fringe'[i]))
                         /\ MoveRank(LastMove(fringe'[i])) > 0
              /\ \A i, j \in 1..Len(fringe') :
                     (i < j /\ NewNode(fringe'[i]) /\ NewNode(fringe'[j])
                            /\ F(fringe'[i]) = F(fringe'[j])) =>
                         MoveRank(LastMove(fringe'[i])) < MoveRank(LastMove(fringe'[j]))
       /\ (pc' = "done" /\ solution'.some) =>
              \A i \in 1..Len(solution'.path) : MoveRank(solution'.path[i]) > 0]_vars

\* C32 happens: solve() has returned a string of several moves in three
\* different directions, and the frontier still holds two children of one
\* node with equal f next to each other, the earlier direction first.
C32_Witness ==
    /\ ReturnedString
    /\ Len(solution.path) >= 3
    /\ Cardinality(SeqToSet(solution.path)) >= 3
    /\ \E i \in 1..(Len(fringe) - 1) :
           /\ Siblings(fringe[i], fringe[i + 1])
           /\ F(fringe[i]) = F(fringe[i + 1])
           /\ MoveRank(LastMove(fringe[i])) < MoveRank(LastMove(fringe[i + 1]))

\* solve() is running, or has ended, for the second time
SecondCall == twin.pc = "again"

\* The first call expanded the initial state
InitialExpanded ==
    \E st \in twin.search.visited_states :
        SameState(st, <<init_player_pos, init_boxes_pos>>)

\* The nodes popped since the second call began
PoppedAgain == Len(popped) - Len(twin.popped)

\* C33: solve() called again on an instance whose first call expanded the
\* initial state clears nothing.  The initial state is not inserted again:
\* the second call enters its loop with the frontier, the closed set and the
\* counters the first call left; it pops the nodes left in the frontier, the
\* first of them first; the visited count goes on from its old value by one
\* per pop and the expanded count and the closed set only grow; and a move
\* string the second call returns replays from the initial state without a
\* rejected move and ends with every box on a goal.
C33_StatePersists ==
    (SecondCall /\ InitialExpanded) =>
        /\ (pc = "loop" /\ PoppedAgain = 0) =>
               /\ fringe = twin.search.fringe
               /\ visited_states = twin.search.visited_states
               /\ expanded_nodes_count = twin.search.expanded_nodes_count
               /\ visited_nodes_count = twin.search.visited_nodes_count
        /\ IsPrefix(twin.popped, popped)
        /\ PoppedAgain > 0 =>
               /\ twin.search.fringe # <<>>
               /\ popped[Len(twin.popped) + 1] = Head(twin.search.fringe)
        /\ visited_nodes_count = twin.search.visited_nodes_count + PoppedAgain
        /\ expanded_nodes_count >= twin.search.expanded_nodes_count
        /\ twin.search.visited_states \subseteq visited_states
        /\ (ReturnedString /\ PoppedAgain > 0) =>
               \A r \in {Replay(board, init_player_pos, init_boxes_pos, solution.path,
                                Len(solution.path))} :
                   r.ok /\ Solved(board, <<r.pos, SeqToSet(r.boxes)>>)

\* C33 happens: the first call expanded the initial state and returned a
\* move string; the second call popped several of the nodes left in the
\* frontier, expanded some more and returned another move string.
C33_Witness ==
    /\ SecondCall /\ InitialExpanded
    /\ twin.search.solution.some
    /\ ReturnedString
    /\ PoppedAgain >= 3
    /\ expanded_nodes_count > twin.search.expanded_nodes_count
    /\ solution.path # twin.search.solution.path

\* play_manual is running or has returned
InManual == pc \in {"manual", "auto", "quit", "next"}

\* C34: from a well-formed initial state, after any moves and restarts of
\* manual play the player is in bounds on a non-wall cell that holds no box
\* and the boxes are pairwise distinct and in bounds on non-wall cells; a
\* manual move that is rejected returns the player position and the box
\* list it was given, with moved = False.
C34_ManualPlay ==
    (InManual /\ WellFormed) =>
        /\ OnFloor(board, viz_pos)
        /\ ~InList(viz_pos, viz_boxes)
        /\ Distinct(viz_boxes)
        /\ \A i \in 1..Len(viz_boxes) : OnFloor(board, viz_boxes[i])
        /\ \A direction \in {"U", "L", "D", "R"} :
               \A mv \in {HandleManualMove(board, direction, viz_pos, viz_boxes)} :
                   IF mv.moved
                   THEN mv.pos # viz_pos
                   ELSE mv.pos = viz_pos /\ mv.boxes = viz_boxes

\* C34 happens: after several moves the player has pushed a box of a
\* two-box level and asked for the solver; where the player stands one move
\* would be rejected, for a box behind the box, and another would be accepted.
C34_Witness ==
    /\ pc = "auto" /\ WellFormed
    /\ Len(viz_boxes) = 2
    /\ step_index >= 3
    /\ \E i \in 1..2 : viz_boxes[i] # init_boxes_pos[i]
    /\ \E direction \in {"U", "L", "D", "R"} :
           /\ ~HandleManualMove(board, direction, viz_pos, viz_boxes).moved
           /\ HandleManualMoveOntoBox(board, direction, viz_pos, viz_boxes).moved
    /\ \E direction \in {"U", "L", "D", "R"} :
           HandleManualMove(board, direction, viz_pos, viz_boxes).moved
====
